---- MODULE Spec2Model ----
(***************************************************************************)
(* Pattern learning and confidence-weighted promotion engine.              *)
(*                                                                         *)
(* State: the pattern store file (learning_memory.json), the rules         *)
(* document (CLAUDE.md), the backup directory and the wall clock at the    *)
(* one-second resolution of strftime('%Y%m%d_%H%M%S').                     *)
(*                                                                         *)
(* Confidence values are Python floats that are sums of multiples of 0.05; *)
(* they are kept here as integers in hundredths (0.8 is 80).  Texts and    *)
(* documents are strings, regular expressions are evaluated on them by     *)
(* substring search.  Every call reads the clock once.                     *)
(***************************************************************************)
EXTENDS Integers, Sequences, FiniteSets, TLC

VARIABLES now, mem, doc, backups, result, last, ops, named, promoteLog, env, inflight,
          auto

vars == <<now, mem, doc, backups, result, last, ops, named, promoteLog, env, inflight,
          auto>>

\* ------------------------------------------------------------------ bounds
\* seconds of the clock, calls of a behaviour of Spec, calls of one of SpecDoc,
\* invocations that overlap in a behaviour of SpecRace
MaxTime == 2
MaxOps == 2
MaxDocOps == 3
MaxInvocations == 2
\* words of a response that SpecClassify classifies
MaxWords == 3
\* calls of a behaviour of SpecQuery
MaxQueryOps == 2
\* calls of a behaviour of SpecExtract
MaxExtractOps == 2
\* invocations in flight in a behaviour of SpecPromote
MaxPromoteInvocations == 3

Absent == -1

\* ------------------------------------------------------------ string tools
Min(a, b) == IF a < b THEN a ELSE b
Max(a, b) == IF a > b THEN a ELSE b

\* s[i-1:j] with Python's clipping of the bounds
Slice(s, i, j) ==
  LET a == Max(i, 1)
      b == Min(j, Len(s))
  IN IF a > b THEN "" ELSE SubSeq(s, a, b)

\* s[:n]
Prefix(s, n) == Slice(s, 1, Min(n, Len(s)))

\* s[n:] for a 0-based offset n
Suffix(s, n) == Slice(s, n + 1, Len(s))

UpperToLower ==
  [c \in {"A","B","C","D","E","F","G","H","I","J","K","L","M",
          "N","O","P","Q","R","S","T","U","V","W","X","Y","Z"} |->
     CASE c = "A" -> "a" [] c = "B" -> "b" [] c = "C" -> "c" [] c = "D" -> "d"
       [] c = "E" -> "e" [] c = "F" -> "f" [] c = "G" -> "g" [] c = "H" -> "h"
       [] c = "I" -> "i" [] c = "J" -> "j" [] c = "K" -> "k" [] c = "L" -> "l"
       [] c = "M" -> "m" [] c = "N" -> "n" [] c = "O" -> "o" [] c = "P" -> "p"
       [] c = "Q" -> "q" [] c = "R" -> "r" [] c = "S" -> "s" [] c = "T" -> "t"
       [] c = "U" -> "u" [] c = "V" -> "v" [] c = "W" -> "w" [] c = "X" -> "x"
       [] c = "Y" -> "y" [] c = "Z" -> "z"]

RECURSIVE Lower(_)
Lower(s) ==
  IF Len(s) = 0 THEN ""
  ELSE LET c == SubSeq(s, 1, 1)
       IN (IF c \in DOMAIN UpperToLower THEN UpperToLower[c] ELSE c)
            \o Lower(Slice(s, 2, Len(s)))

\* 1-based position of the first occurrence of p in s at or after position i,
\* 0 when there is none (str.find / re.search of a literal)
Find(s, p, i) ==
  LET hits == {j \in Max(i, 1)..(Len(s) - Len(p) + 1) : SubSeq(s, j, j + Len(p) - 1) = p}
  IN IF hits = {} THEN 0 ELSE CHOOSE j \in hits : \A k \in hits : j <= k

Contains(s, p) == Find(s, p, 1) # 0

\* re.search(r"a.*b", s) on a one-line s
ContainsThen(s, a, b) ==
  LET i == Find(s, a, 1) IN i # 0 /\ Find(s, b, i + Len(a)) # 0

IsSpace(c) == c \in {" ", "\t", "\n", "\r"}

\* first position at or after i that does not hold white space (Len(s)+1 at the end)
RECURSIVE SkipSpace(_, _)
SkipSpace(s, i) ==
  IF i <= Len(s) /\ IsSpace(SubSeq(s, i, i)) THEN SkipSpace(s, i + 1) ELSE i

\* positions j >= i where the literal kw starts and is followed by white space (kw\s+)
KwHits(s, kw, i) ==
  {j \in Max(i, 1)..(Len(s) - Len(kw)) :
      /\ SubSeq(s, j, j + Len(kw) - 1) = kw
      /\ IsSpace(SubSeq(s, j + Len(kw), j + Len(kw)))}

MinOf(S) == CHOOSE j \in S : \A k \in S : j <= k

\* re.findall(r"kw\s+(.*)", text, re.IGNORECASE) on a one-line text
FindallRest(text, kw) ==
  LET low == Lower(text)
      hits == KwHits(low, kw, 1)
  IN IF hits = {} THEN <<>>
     ELSE LET j == MinOf(hits)
              b == SkipSpace(low, j + Len(kw))
          IN << <<Slice(text, b, Len(text))>> >>

\* re.findall(r"kw\s+(.*?),\s*(.*)", text, re.IGNORECASE) on a one-line text
FindallComma(text, kw) ==
  LET low == Lower(text)
      hits == {j \in KwHits(low, kw, 1) : Find(low, ",", SkipSpace(low, j + Len(kw))) # 0}
  IN IF hits = {} THEN <<>>
     ELSE LET j == MinOf(hits)
              b == SkipSpace(low, j + Len(kw))
              c == Find(low, ",", b)
              r == SkipSpace(low, c + 1)
          IN << <<Slice(text, b, c - 1), Slice(text, r, Len(text))>> >>

\* end (exclusive position) of the first \s+instead\s+of\s+ at or after p, 0 if none;
\* the lazy group before it ends at the first white space that starts such a run
InsteadHits(s, p) ==
  {q \in Max(p, 1)..Len(s) :
      /\ IsSpace(SubSeq(s, q, q))
      /\ LET a == SkipSpace(s, q)
         IN /\ Slice(s, a, a + 6) = "instead"
            /\ a + 7 <= Len(s) /\ IsSpace(SubSeq(s, a + 7, a + 7))
            /\ LET o == SkipSpace(s, a + 7)
               IN /\ Slice(s, o, o + 1) = "of"
                  /\ o + 2 <= Len(s) /\ IsSpace(SubSeq(s, o + 2, o + 2))}

InsteadEnd(s, q) == SkipSpace(s, SkipSpace(s, SkipSpace(s, q) + 7) + 2)

\* re.findall(r"use\s+(.*?)\s+instead\s+of\s+(.*?)", text, re.IGNORECASE): the
\* trailing lazy group always captures the empty string
RECURSIVE FindallInstead(_, _, _)
FindallInstead(text, low, i) ==
  LET hits == {j \in KwHits(low, "use", i) : InsteadHits(low, SkipSpace(low, j + 3)) # {}}
  IN IF hits = {} THEN <<>>
     ELSE LET j == MinOf(hits)
              b == SkipSpace(low, j + 3)
              q == MinOf(InsteadHits(low, b))
          IN << <<Slice(text, b, q - 1), "">> >> \o FindallInstead(text, low, InsteadEnd(low, q))

\* re.findall(r"i\s+prefer\s+(.*)", text, re.IGNORECASE) on a one-line text
FindallPrefer(text) ==
  LET low == Lower(text)
      hits == {j \in KwHits(low, "i", 1) :
                 LET a == SkipSpace(low, j + 1)
                 IN Slice(low, a, a + 5) = "prefer" /\ a + 6 <= Len(low)
                    /\ IsSpace(SubSeq(low, a + 6, a + 6))}
  IN IF hits = {} THEN <<>>
     ELSE LET j == MinOf(hits)
              a == SkipSpace(low, j + 1)
          IN << <<Slice(text, SkipSpace(low, a + 6), Len(text))>> >>

\* re.findall(r"actually,?\s+(.*)", text) on a one-line lower-cased text
FindallActually(low) ==
  LET hits == {j \in 1..(Len(low) - 8) :
                 /\ SubSeq(low, j, j + 7) = "actually"
                 /\ LET a == IF Slice(low, j + 8, j + 8) = "," THEN j + 9 ELSE j + 8
                    IN a <= Len(low) /\ IsSpace(SubSeq(low, a, a))}
  IN IF hits = {} THEN <<>>
     ELSE LET j == MinOf(hits)
              a == IF Slice(low, j + 8, j + 8) = "," THEN j + 9 ELSE j + 8
          IN << <<Slice(low, SkipSpace(low, a), Len(low))>> >>

\* positions q >= p where should\s+be\s+ starts
ShouldBeHits(s, p) ==
  {q \in KwHits(s, "should", p) :
      LET b == SkipSpace(s, q + 6)
      IN Slice(s, b, b + 1) = "be" /\ b + 2 <= Len(s) /\ IsSpace(SubSeq(s, b + 2, b + 2))}

\* re.findall(r"(?:wrong|incorrect|mistake).*?should\s+be\s+(.*)", text) on a
\* one-line lower-cased text
FindallMistake(low) ==
  LET starts == {<<j, w>> \in (1..Len(low)) \X {"wrong", "incorrect", "mistake"} :
                    /\ Slice(low, j, j + Len(w) - 1) = w
                    /\ ShouldBeHits(low, j + Len(w)) # {}}
  IN IF starts = {} THEN <<>>
     ELSE LET jw == CHOOSE x \in starts : \A y \in starts : x[1] <= y[1]
              q == MinOf(ShouldBeHits(low, jw[1] + Len(jw[2])))
              b == SkipSpace(low, q + 6)
          IN << <<Slice(low, SkipSpace(low, b + 2), Len(low))>> >>

\* ===== state of the pattern store ========================================

\* strftime('%Y%m%d_%H%M%S') of the clock: one string per second
Stamp(t) == ToString(t)

MissingFile ==
  [exists |-> FALSE, entities |-> <<>>, relations |-> <<>>, stats |-> Absent,
   hasCorrections |-> FALSE, corrections |-> <<>>, metadata |-> Absent]

\* the structure enhanced_learn.py starts from when the file has no entities
FreshEL ==
  [exists |-> TRUE, entities |-> <<>>, relations |-> <<>>, stats |-> 0,
   hasCorrections |-> FALSE, corrections |-> <<>>, metadata |-> Absent]

\* memory_learn.load_memory: the parsed file, or a default structure
load_memory(m, t) ==
  IF m.exists THEN m
  ELSE [exists |-> TRUE, entities |-> <<>>, relations |-> <<>>, stats |-> Absent,
        hasCorrections |-> TRUE, corrections |-> <<>>, metadata |-> t]

\* enhanced_learn.py: load, then default the missing sections
LoadEL(m) ==
  IF ~m.exists THEN FreshEL
  ELSE IF m.stats = Absent THEN [m EXCEPT !.stats = 0] ELSE m

IdsOf(es) == {es[i].id : i \in DOMAIN es}

\* position of the record with this key in the entities dict, 0 when absent
IdxOf(es, id) ==
  IF id \in IdsOf(es) THEN CHOOSE i \in DOMAIN es : es[i].id = id ELSE 0

\* entities[id] = e: a new key goes last, an existing key keeps its place
PutEntity(es, e) ==
  IF IdxOf(es, e.id) = 0 THEN Append(es, e) ELSE [es EXCEPT ![IdxOf(es, e.id)] = e]

NewCorrection(id, ctype, match, isList, text, ctx, conf, t) ==
  [id |-> id, type |-> "user_correction", correction_type |-> ctype,
   pattern |-> match, patternIsList |-> isList, original_text |-> text,
   context |-> ctx, confidence |-> conf, created |-> t,
   applied_count |-> 0, success_count |-> 0, last_updated |-> Absent,
   feedback_history |-> <<>>, promoted_to_claude_md |-> FALSE,
   promotion_date |-> Absent, promotion_confidence |-> Absent]

\* a general observation has no confidence, counts or pattern; its text is
\* under the key "content"
NewObservation(id, text, ctx, t) ==
  [id |-> id, type |-> "general_observation", correction_type |-> "",
   pattern |-> <<>>, patternIsList |-> FALSE, original_text |-> text,
   context |-> ctx, confidence |-> Absent, created |-> t,
   applied_count |-> Absent, success_count |-> Absent, last_updated |-> Absent,
   feedback_history |-> <<>>, promoted_to_claude_md |-> FALSE,
   promotion_date |-> Absent, promotion_confidence |-> Absent]

\* pattern.get(key, default) for the numeric keys
GetOr(v, default) == IF v = Absent THEN default ELSE v

\* ----------------------------------------------------------- context tags
AnyKeyword(low, kws) == \E k \in DOMAIN kws : Contains(low, kws[k])

DetectFrom(low, table) ==
  LET hit == SelectSeq(table, LAMBDA row : AnyKeyword(low, row[2]))
  IN IF hit = <<>> THEN <<"general">> ELSE [i \in DOMAIN hit |-> hit[i][1]]

context_keywords ==
  << <<"urgent", <<"quick", "urgent", "asap", "fast">> >>,
     <<"quality", <<"careful", "thorough", "comprehensive">> >>,
     <<"coding", <<"function", "class", "import", "test", "code">> >>,
     <<"review", <<"pr", "review", "check">> >>,
     <<"workflow", <<"command", "process", "commit">> >> >>

context_indicators ==
  << <<"urgent", <<"quick", "urgent", "asap", "immediately", "fast", "rush">> >>,
     <<"quality", <<"careful", "thorough", "comprehensive", "detailed">> >>,
     <<"coding", <<"function", "class", "variable", "import", "test", "code">> >>,
     <<"review", <<"pr", "review", "check", "verify", "approve">> >>,
     <<"workflow", <<"command", "process", "step", "procedure">> >>,
     <<"testing", <<"test", "testing", "spec", "coverage">> >>,
     <<"documentation", <<"docs", "readme", "documentation", "comment">> >> >>

detect_context(text) == DetectFrom(Lower(text), context_indicators)

\* ------------------------------------------------------------- extraction
Tag(matches, ctype, isList) ==
  [i \in DOMAIN matches |-> [type |-> ctype, match |-> matches[i], isList |-> isList]]

\* enhanced_learn.py: the six templates in order, on the text as given; a
\* one-group match is a string, a two-group match becomes a list in the file
corrections_found(text) ==
  Tag(FindallComma(text, "don't"), "dont_do_instead", TRUE)
    \o Tag(FindallInstead(text, Lower(text), 1), "use_instead_of", TRUE)
    \o Tag(FindallPrefer(text), "preference", FALSE)
    \o Tag(FindallComma(text, "when"), "context_behavior", TRUE)
    \o Tag(FindallRest(text, "always"), "always_rule", FALSE)
    \o Tag(FindallRest(text, "never"), "never_rule", FALSE)

\* memory_learn.py: eight templates on the lower-cased text; every match is
\* wrapped in a tuple
detect_correction_patterns(text) ==
  LET low == Lower(text)
  IN Tag(FindallComma(low, "don't"), "dont_do_instead", TRUE)
       \o Tag(FindallInstead(low, low, 1), "use_instead_of", TRUE)
       \o Tag(FindallPrefer(low), "preference", TRUE)
       \o Tag(FindallComma(low, "when"), "context_behavior", TRUE)
       \o Tag(FindallRest(low, "always"), "always_rule", TRUE)
       \o Tag(FindallRest(low, "never"), "never_rule", TRUE)
       \o Tag(FindallActually(low), "correction", TRUE)
       \o Tag(FindallMistake(low), "mistake_fix", TRUE)

\* the texts of the callers that exercise the extraction
ExtractTexts ==
  {"", "   ", "looks fine", "always run tests", "Don't use pip, always use uv",
   "always push. never push", "use a instead of b use a instead of c",
   "always x. always x.", "Actually, never push.", "always use a instead of b."}

\* the texts the callers learn from
LearnTexts == {"always run tests", "Don't use pip, always use uv", "looks fine", ""}

\* what the two learn scripts detect in each of these texts (a function of the
\* text alone, tabulated once)
ELContexts == [text \in LearnTexts \cup ExtractTexts |-> DetectFrom(Lower(text), context_keywords)]
ELFound == [text \in LearnTexts \cup ExtractTexts |-> corrections_found(text)]
MLContexts == [text \in LearnTexts \cup ExtractTexts |-> detect_context(text)]
MLFound == [text \in LearnTexts \cup ExtractTexts |-> detect_correction_patterns(text)]

\* ------------------------------------------------------------------ learn
\* enhanced_learn.py, the loop that stores corrections_found; i is the
\* enumerate index, t the clock second
RECURSIVE StoreFound(_, _, _, _, _, _)
StoreFound(m, found, i, text, ctx, t) ==
  IF i >= Len(found) THEN m
  ELSE LET c == found[i + 1]
           entity_id == "correction_" \o Stamp(t) \o "_" \o ToString(i)
           e == NewCorrection(entity_id, c.type, c.match, c.isList, text, ctx, 80, t)
       IN StoreFound([m EXCEPT !.entities = PutEntity(@, e), !.stats = @ + 1],
                     found, i + 1, text, ctx, t)

\* enhanced_learn.py without its else branch: a text in which no template
\* matched leaves no record
enhanced_learn_corrections_only(m, text, t) ==
  LET memory == LoadEL(m)
      ctx == ELContexts[text]
      found == ELFound[text]
  IN IF found # <<>>
     THEN StoreFound(memory, found, 0, text, ctx, t)
     ELSE memory

\* enhanced_learn.py enhanced_learn: the file it writes
enhanced_learn(m, text, t) ==
  LET memory == LoadEL(m)
      ctx == ELContexts[text]
      found == ELFound[text]
  IN IF found # <<>>
     THEN StoreFound(memory, found, 0, text, ctx, t)
     ELSE [memory EXCEPT !.entities =
             PutEntity(@, NewObservation("observation_" \o Stamp(t), text, ctx, t))]

\* memory_learn.store_correction_local: load, add, save; KeyError when the
\* loaded file has no "corrections" list (nothing is saved then)
store_correction_local(m, c, ctx, t) ==
  LET memory == load_memory(m, t)
      entity_id == "correction_" \o Stamp(t)
      e == NewCorrection(entity_id, c.type, c.match, c.isList, c.original_text, ctx, c.confidence, t)
  IN IF ~memory.hasCorrections
     THEN [ok |-> FALSE, mem |-> m]
     ELSE [ok |-> TRUE,
           mem |-> [memory EXCEPT !.entities = PutEntity(@, e),
                                  !.corrections = Append(@, entity_id),
                                  !.relations = Append(@, entity_id)]]

store_observation_local(m, content, ctx, t) ==
  [load_memory(m, t) EXCEPT !.entities =
     PutEntity(@, NewObservation("observation_" \o Stamp(t), content, ctx, t))]

RECURSIVE StoreEach(_, _, _, _, _)
StoreEach(m, corrections, i, ctx, t) ==
  IF i > Len(corrections) THEN [ok |-> TRUE, mem |-> m]
  ELSE LET r == store_correction_local(m, corrections[i], ctx, t)
       IN IF r.ok THEN StoreEach(r.mem, corrections, i + 1, ctx, t) ELSE r

\* memory_learn.enhanced_learn
memory_learn(m, text, t) ==
  LET context == MLContexts[text]
      found == MLFound[text]
      corrections == [i \in DOMAIN found |->
                        [type |-> found[i].type, match |-> found[i].match,
                         isList |-> found[i].isList, original_text |-> text,
                         confidence |-> 80]]
  IN IF corrections # <<>>
     THEN StoreEach(m, corrections, 1, context, t)
     ELSE [ok |-> TRUE, mem |-> store_observation_local(m, text, context, t)]

\* --------------------------------------------------------------- feedback
positive_keywords ==
  <<"good", "great", "perfect", "excellent", "thanks", "correct", "right",
    "yes", "exactly", "nice">>

negative_keywords ==
  <<"wrong", "incorrect", "no", "actually", "don't", "error", "mistake", "fix",
    "change", "instead">>

correction_phrasings ==
  << <<"don't", "do">>, <<"use", "instead">>, <<"actually", "should">>,
     <<"prefer", "not">>, <<"wrong", "should">> >>

Hits(low, kws) == Cardinality({k \in DOMAIN kws : Contains(low, kws[k])})

\* the classification with the tie of the two counts given to negative
detect_feedback_tie_negative(user_response) ==
  LET response_lower == Lower(user_response)
      positive_count == Hits(response_lower, positive_keywords)
      negative_count == Hits(response_lower, negative_keywords)
  IN IF \E k \in DOMAIN correction_phrasings :
          ContainsThen(response_lower, correction_phrasings[k][1], correction_phrasings[k][2])
     THEN "correction"
     ELSE IF negative_count >= positive_count /\ negative_count > 0 THEN "negative"
     ELSE IF positive_count > 0 THEN "positive"
     ELSE "neutral"

detect_feedback_type(user_response) ==
  LET response_lower == Lower(user_response)
      positive_count == Hits(response_lower, positive_keywords)
      negative_count == Hits(response_lower, negative_keywords)
  IN IF \E k \in DOMAIN correction_phrasings :
          ContainsThen(response_lower, correction_phrasings[k][1], correction_phrasings[k][2])
     THEN "correction"
     ELSE IF negative_count > positive_count THEN "negative"
     ELSE IF positive_count > 0 THEN "positive"
     ELSE "neutral"

\* the answers the callers give as feedback
FeedbackTexts ==
  {"perfect, thanks", "ok", "that is wrong", "Actually, that's wrong, use X instead"}

\* feedback_type = self.detect_feedback_type(user_feedback), tabulated once
FeedbackTypeOf == [text \in FeedbackTexts |-> detect_feedback_type(text)]

\* the table with the deltas of negative and correction exchanged
adjustmentsExchanged(feedback_type) ==
  CASE feedback_type = "positive" -> 10
    [] feedback_type = "neutral" -> 0
    [] feedback_type = "negative" -> -25
    [] feedback_type = "correction" -> -15

\* the adjustments table, in hundredths
adjustments(feedback_type) ==
  CASE feedback_type = "positive" -> 10
    [] feedback_type = "neutral" -> 0
    [] feedback_type = "negative" -> -15
    [] feedback_type = "correction" -> -25

\* the clamp without its lower bound
ClampUpperOnly(x) == Min(100, x)

\* max(0.0, min(1.0, x))
Clamp(x) == Max(0, Min(100, x))

\* the counters after one application in ConfidenceTracker
TrackerCounts(pattern, feedback_type) ==
  [applied_count |-> GetOr(pattern.applied_count, 0) + 1,
   success_count |-> IF feedback_type \in {"positive", "neutral"}
                     THEN GetOr(pattern.success_count, 0) + 1
                     ELSE pattern.success_count]

\* the body of the loop of ConfidenceTracker.update_pattern_confidence for a
\* pattern that is in the store
ApplyFeedback(pattern, feedback_type, user_feedback, t) ==
  LET old_confidence == GetOr(pattern.confidence, 50)
      counts == TrackerCounts(pattern, feedback_type)
  IN [pattern EXCEPT
        !.confidence = Clamp(old_confidence + adjustments(feedback_type)),
        !.last_updated = t,
        !.applied_count = counts.applied_count,
        !.success_count = counts.success_count,
        !.feedback_history =
           Append(@, [feedback_type |-> feedback_type,
                      adjustment |-> adjustments(feedback_type),
                      timestamp |-> t,
                      user_text |-> Prefix(user_feedback, 100)])]

\* the loop over pattern_ids: the store and the list updated_patterns
RECURSIVE FeedbackLoop(_, _, _, _, _, _)
FeedbackLoop(es, updated, pattern_ids, feedback_type, user_feedback, t) ==
  IF pattern_ids = <<>> THEN [entities |-> es, updated |-> updated]
  ELSE LET pattern_id == Head(pattern_ids)
           k == IdxOf(es, pattern_id)
       IN IF k = 0
          THEN FeedbackLoop(es, updated, Tail(pattern_ids), feedback_type, user_feedback, t)
          ELSE LET p == ApplyFeedback(es[k], feedback_type, user_feedback, t)
               IN FeedbackLoop([es EXCEPT ![k] = p],
                               Append(updated,
                                      [id |-> pattern_id,
                                       old_confidence |-> GetOr(es[k].confidence, 50),
                                       new_confidence |-> p.confidence,
                                       feedback_type |-> feedback_type]),
                               Tail(pattern_ids), feedback_type, user_feedback, t)

\* the counters with applied_count incremented only on the failure branch
MLCountsElse(entity, adjustment) ==
  [applied_count |-> IF adjustment > 0 THEN entity.applied_count
                     ELSE GetOr(entity.applied_count, 0) + 1,
   success_count |-> IF adjustment > 0 THEN GetOr(entity.success_count, 0) + 1
                     ELSE entity.success_count]

\* memory_learn.update_pattern_confidence on an entity of the store; the
\* counters it writes
MLCounts(entity, adjustment) ==
  [applied_count |-> GetOr(entity.applied_count, 0) + 1,
   success_count |-> IF adjustment > 0 THEN GetOr(entity.success_count, 0) + 1
                     ELSE entity.success_count]

\* memory_learn.update_pattern_confidence: KeyError (and no save) when the
\* entity has no confidence; nothing is saved when the id is unknown
update_pattern_confidence(m, entity_id, adjustment, t) ==
  LET memory == load_memory(m, t)
      k == IdxOf(memory.entities, entity_id)
  IN IF k = 0 THEN [ok |-> TRUE, mem |-> m]
     ELSE IF memory.entities[k].confidence = Absent THEN [ok |-> FALSE, mem |-> m]
     ELSE LET entity == memory.entities[k]
              counts == MLCounts(entity, adjustment)
          IN [ok |-> TRUE,
              mem |-> [memory EXCEPT !.entities[k] =
                         [entity EXCEPT
                            !.confidence = Clamp(entity.confidence + adjustment),
                            !.last_updated = t,
                            !.success_count = counts.success_count,
                            !.applied_count = counts.applied_count]]]

\* -------------------------------------------------------------- promotion
\* the looser criteria of get_high_confidence_patterns' defaults
MeetsLooseCriteria(pattern) ==
  LET confidence == GetOr(pattern.confidence, 0)
      applications == GetOr(pattern.applied_count, 0)
      success_count == GetOr(pattern.success_count, 0)
  IN /\ confidence >= 80
     /\ applications >= 3
     /\ 10 * success_count >= 7 * Max(1, applications)

\* the strict promotion criteria on one stored pattern; the quotient
\* success_count / max(1, applications) >= 0.8 is compared in integers
MeetsCriteria(pattern) ==
  LET confidence == GetOr(pattern.confidence, 0)
      applications == GetOr(pattern.applied_count, 0)
      success_count == GetOr(pattern.success_count, 0)
  IN /\ confidence >= 90
     /\ applications >= 5
     /\ 10 * success_count >= 8 * Max(1, applications)

\* sorted(items, key=confidence, reverse=True): stable, equal keys keep their order
RECURSIVE SortByConfidence(_)
SortByConfidence(items) ==
  IF items = <<>> THEN <<>>
  ELSE LET top == CHOOSE i \in DOMAIN items :
                    /\ \A j \in DOMAIN items : items[j].confidence <= items[i].confidence
                    /\ \A j \in 1..(i - 1) : items[j].confidence < items[i].confidence
           rest == [j \in 1..(Len(items) - 1) |-> IF j < top THEN items[j] ELSE items[j + 1]]
       IN <<items[top]>> \o SortByConfidence(rest)

get_promotable_patterns(m) ==
  IF ~m.exists THEN <<>>
  ELSE LET chosen == SelectSeq(m.entities,
                       LAMBDA p : p.type = "user_correction" /\ MeetsCriteria(p))
       IN SortByConfidence(
            [i \in DOMAIN chosen |->
               [id |-> chosen[i].id, pattern |-> chosen[i],
                confidence |-> GetOr(chosen[i].confidence, 0),
                applications |-> GetOr(chosen[i].applied_count, 0),
                success_rate |-> <<GetOr(chosen[i].success_count, 0),
                                   Max(1, GetOr(chosen[i].applied_count, 0))>>]])

RECURSIVE Join(_, _)
Join(strs, sep) ==
  IF strs = <<>> THEN ""
  ELSE IF Len(strs) = 1 THEN strs[1]
  ELSE strs[1] \o sep \o Join(Tail(strs), sep)

\* str() of the stored match: the string itself, or the repr of the list
PatternText(pattern) ==
  IF pattern.patternIsList
  THEN "[" \o Join([i \in DOMAIN pattern.pattern |-> "'" \o pattern.pattern[i] \o "'"], ", ") \o "]"
  ELSE IF pattern.pattern = <<>> THEN "" ELSE pattern.pattern[1]

\* the emoji that start each rule are left out of the strings
format_pattern_as_rule(pattern_data) ==
  LET pattern == pattern_data.pattern
      correction_type == pattern.correction_type
      pattern_match == pattern.pattern
      isList == pattern.patternIsList
  IN IF correction_type = "dont_do_instead" /\ isList /\ Len(pattern_match) >= 2
     THEN "NEVER " \o pattern_match[1] \o " | ALWAYS " \o pattern_match[2]
     ELSE IF correction_type = "preference"
     THEN "USER PREFERENCE: " \o PatternText(pattern)
     ELSE IF correction_type = "context_behavior" /\ isList /\ Len(pattern_match) >= 2
     THEN "CONTEXT RULE: When " \o pattern_match[1] \o ", " \o pattern_match[2]
     ELSE IF correction_type = "always_rule"
     THEN "ALWAYS: " \o PatternText(pattern)
     ELSE IF correction_type = "never_rule"
     THEN "NEVER: " \o PatternText(pattern)
     ELSE "LEARNED RULE: " \o PatternText(pattern)
            \o " (context: " \o Join(pattern.context, ", ") \o ")"

\* f"{confidence:.2f}" of a value in hundredths
Fmt2(c) ==
  ToString(c \div 100) \o "." \o ToString((c % 100) \div 10) \o ToString(c % 10)

RuleLine(pattern_data) ==
  "- " \o format_pattern_as_rule(pattern_data) \o " (learned: "
    \o Fmt2(pattern_data.confidence) \o " confidence, "
    \o ToString(pattern_data.applications) \o " applications)"

insertion_points ==
  << <<"## Development Guidelines", "development">>,
     <<"## Code Standards", "coding">>,
     <<"## Testing", "testing">>,
     <<"## Critical Lessons", "lessons">>,
     <<"## Project-Specific", "project">> >>

\* start and end are offsets into the content (characters before the point)
find_insertion_point(claude_md_content) ==
  LET matched == {k \in DOMAIN insertion_points :
                     Contains(claude_md_content, insertion_points[k][1])}
  IN IF matched # {}
     THEN LET k == MinOf(matched)
              start == Find(claude_md_content, insertion_points[k][1], 1) - 1
                         + Len(insertion_points[k][1])
              next_section == Find(claude_md_content, "\n## ", start + 1)
          IN [start |-> start,
              end |-> IF next_section # 0 THEN next_section - 1 ELSE Len(claude_md_content),
              section |-> insertion_points[k][2]]
     ELSE [start |-> Len(claude_md_content), end |-> Len(claude_md_content),
           section |-> "end"]

\* the generated sub-section; t stands for the "Last updated" time
learned_section(new_rules, t) ==
  "\n\n### Learned Rules (Auto-Generated from Experience)\n"
    \o "*Rules promoted from dynamic learning system based on user corrections*\n\n"
    \o Join(new_rules, "\n")
    \o "\n\n*Last updated: " \o Stamp(t) \o "*\n"

\* original_content[:insert_start] + learned_section + original_content[insert_end:]
new_content(original_content, section_text) ==
  LET at == find_insertion_point(original_content)
  IN Prefix(original_content, at.start) \o section_text \o Suffix(original_content, at.end)

BackupPath(t) == "CLAUDE_md_backup_" \o Stamp(t) \o ".md"

\* create_backup: shutil.copy2 of the document onto the path of this second;
\* nothing is copied when there is no document
create_backup(bk, d, t) ==
  IF ~d.exists THEN bk
  ELSE [p \in DOMAIN bk \cup {BackupPath(t)} |->
          IF p = BackupPath(t) THEN d.content ELSE bk[p]]

RECURSIVE MarkEach(_, _, _)
MarkEach(es, promoted_patterns, t) ==
  IF promoted_patterns = <<>> THEN es
  ELSE LET pattern_data == Head(promoted_patterns)
           k == IdxOf(es, pattern_data.id)
       IN MarkEach(IF k = 0 THEN es
                   ELSE [es EXCEPT ![k] =
                           [@ EXCEPT !.promoted_to_claude_md = TRUE,
                                     !.promotion_date = t,
                                     !.promotion_confidence = pattern_data.confidence]],
                   Tail(promoted_patterns), t)

\* the marking that stops after the first promoted pattern
_mark_first_promoted(m, promoted_patterns, t) ==
  IF ~m.exists THEN m
  ELSE [m EXCEPT !.entities = MarkEach(@, SubSeq(promoted_patterns, 1, 1), t)]

\* the marking that records the confidence the store holds at the marking
\* instead of the confidence of the listing
_mark_with_store_confidence(m, promoted_patterns, t) ==
  IF ~m.exists THEN m
  ELSE LET es == m.entities
           Marked(e) ==
             IF \E i \in DOMAIN promoted_patterns : promoted_patterns[i].id = e.id
             THEN [e EXCEPT !.promoted_to_claude_md = TRUE,
                            !.promotion_date = t,
                            !.promotion_confidence = e.confidence]
             ELSE e
       IN [m EXCEPT !.entities = [k \in 1..Len(es) |-> Marked(es[k])]]

_mark_patterns_promoted(m, promoted_patterns, t) ==
  IF ~m.exists THEN m
  ELSE [m EXCEPT !.entities = MarkEach(@, promoted_patterns, t)]

\* the early returns without the test for the document
EarlyReturnNoTest(promotable_patterns, d) ==
  IF promotable_patterns = <<>> THEN "no_patterns" ELSE ""

\* the early returns of update_claude_md: the status it returns before it
\* reads the document, "" when it goes on
EarlyReturn(promotable_patterns, d) ==
  IF promotable_patterns = <<>> THEN "no_patterns"
  ELSE IF ~d.exists THEN "error"
  ELSE ""

\* a rollback that moves the backup file onto the document
rollback_by_move(d, bk, backup_path) ==
  IF backup_path \notin DOMAIN bk
  THEN [status |-> "error", doc |-> d, backups |-> bk]
  ELSE [status |-> "success",
        doc |-> [exists |-> TRUE, content |-> bk[backup_path]],
        backups |-> [p \in DOMAIN bk \ {backup_path} |-> bk[p]]]

\* rollback_to_backup: shutil.copy2 of the backup file onto the document
rollback_to_backup(d, bk, backup_path) ==
  IF backup_path \notin DOMAIN bk
  THEN [status |-> "error", doc |-> d, backups |-> bk]
  ELSE [status |-> "success",
        doc |-> [exists |-> TRUE, content |-> bk[backup_path]],
        backups |-> bk]

\* ------------------------------------------- auto_correction_detector.py
\* The templates of CorrectionDetector are regular expressions of a few
\* kinds of parts; a template is the sequence of its parts.
Lit(v) == [k |-> "lit", v |-> v]          \* literal text
Sp1 == [k |-> "sp1", v |-> ""]            \* \s+
Sp0 == [k |-> "sp0", v |-> ""]            \* \s*
Cap == [k |-> "cap", v |-> ""]            \* (.*?)
Gap == [k |-> "gap", v |-> ""]            \* .*?
End == [k |-> "end", v |-> ""]            \* (?:\.|$)
Opt(parts) == [k |-> "opt", v |-> parts]  \* (?:parts)?
Alt(choices) == [k |-> "alt", v |-> choices]  \* (?:a|b|...)

NoMatch == [ok |-> FALSE, end |-> 0, caps |-> <<>>]

\* re's backtracking match of the parts from the i-th on at position p of s
\* (re.DOTALL): the first success in the order re tries the choices: greedy
\* white space from the longest run down, lazy groups from the shortest up,
\* an optional part first with it, alternatives left to right.
RECURSIVE ReMatch(_, _, _, _, _)
RECURSIVE ReShrink(_, _, _, _, _, _, _)
RECURSIVE ReGrow(_, _, _, _, _, _, _)
RECURSIVE ReChoose(_, _, _, _, _, _)
ReMatch(s, parts, i, p, caps) ==
  IF i > Len(parts) THEN [ok |-> TRUE, end |-> p, caps |-> caps]
  ELSE LET part == parts[i]
           rest == SubSeq(parts, i + 1, Len(parts))
       IN CASE part.k = "lit" ->
                 IF Slice(s, p, p + Len(part.v) - 1) = part.v /\ p + Len(part.v) - 1 <= Len(s)
                 THEN ReMatch(s, parts, i + 1, p + Len(part.v), caps)
                 ELSE NoMatch
            [] part.k = "sp1" -> ReShrink(s, parts, i, p, caps, SkipSpace(s, p), p + 1)
            [] part.k = "sp0" -> ReShrink(s, parts, i, p, caps, SkipSpace(s, p), p)
            [] part.k = "cap" -> ReGrow(s, parts, i, p, caps, p, TRUE)
            [] part.k = "gap" -> ReGrow(s, parts, i, p, caps, p, FALSE)
            [] part.k = "end" ->
                 IF Slice(s, p, p) = "." THEN ReMatch(s, parts, i + 1, p + 1, caps)
                 ELSE IF p = Len(s) + 1 THEN ReMatch(s, parts, i + 1, p, caps)
                 ELSE NoMatch
            [] part.k = "opt" ->
                 LET with == ReMatch(s, part.v \o rest, 1, p, caps)
                 IN IF with.ok THEN with ELSE ReMatch(s, parts, i + 1, p, caps)
            [] part.k = "alt" -> ReChoose(s, part.v, rest, p, caps, 1)

\* greedy white space: the part ends at q, or failing that at q - 1, ... down to low
ReShrink(s, parts, i, p, caps, q, low) ==
  IF q < low THEN NoMatch
  ELSE LET r == ReMatch(s, parts, i + 1, q, caps)
       IN IF r.ok THEN r ELSE ReShrink(s, parts, i, p, caps, q - 1, low)

\* lazy .*?: the part ends before q, or failing that before q + 1, ... up to the end
ReGrow(s, parts, i, p, caps, q, capture) ==
  IF q > Len(s) + 1 THEN NoMatch
  ELSE LET r == ReMatch(s, parts, i + 1, q,
                        IF capture THEN Append(caps, Slice(s, p, q - 1)) ELSE caps)
       IN IF r.ok THEN r ELSE ReGrow(s, parts, i, p, caps, q + 1, capture)

ReChoose(s, choices, rest, p, caps, n) ==
  IF n > Len(choices) THEN NoMatch
  ELSE LET r == ReMatch(s, choices[n] \o rest, 1, p, caps)
       IN IF r.ok THEN r ELSE ReChoose(s, choices, rest, p, caps, n + 1)

\* re.findall(template, s, re.DOTALL): the captures of the matches from
\* left to right, each search starting where the last match ended
RECURSIVE ReFindall(_, _, _)
ReFindall(s, parts, j) ==
  IF j > Len(s) THEN <<>>
  ELSE LET r == ReMatch(s, parts, 1, j, <<>>)
       IN IF r.ok
          THEN <<r.caps>> \o ReFindall(s, parts, IF r.end = j THEN j + 1 ELSE r.end)
          ELSE ReFindall(s, parts, j + 1)

\* the template  words\s+(.*?)(?:\.|$), the words joined by \s+
RECURSIVE Phrase(_)
Phrase(words) ==
  IF Len(words) = 1 THEN <<Lit(words[1])>>
  ELSE <<Lit(words[1]), Sp1>> \o Phrase(Tail(words))

OneGroup(words) == Phrase(words) \o <<Sp1, Cap, End>>

\* words\s+(.*?)c\s*(.*?)(?:\.|$) for a separating character c
TwoGroups(words, c) == Phrase(words) \o <<Sp1, Cap, Lit(c), Sp0, Cap, End>>

\* words\s+(.*?)\s+between\s+(.*?)(?:\.|$)
Between(words, between) ==
  Phrase(words) \o <<Sp1, Cap, Sp1>> \o Phrase(between) \o <<Sp1, Cap, End>>

\* word,?\s+(.*?)(?:\.|$)
AfterComma(word) == <<Lit(word), Opt(<<Lit(",")>>), Sp1, Cap, End>>

\* self.patterns: the categories in the order of the dict, each with its templates
patterns ==
  << <<"dont_do_instead",
       <<TwoGroups(<<"don't">>, ","), TwoGroups(<<"don't">>, "."),
         TwoGroups(<<"avoid">>, ","), TwoGroups(<<"stop">>, ",")>> >>,
     <<"use_instead",
       <<Between(<<"use">>, <<"instead", "of">>), Between(<<"prefer">>, <<"over">>),
         Between(<<"choose">>, <<"not">>)>> >>,
     <<"preference",
       <<OneGroup(<<"i", "prefer">>), OneGroup(<<"i", "like">>),
         OneGroup(<<"my", "preference", "is">>), OneGroup(<<"please", "use">>)>> >>,
     <<"context_behavior",
       <<TwoGroups(<<"when">>, ","), TwoGroups(<<"if">>, ","),
         TwoGroups(<<"during">>, ","), TwoGroups(<<"for">>, ",")>> >>,
     <<"always_rule",
       <<OneGroup(<<"always">>), OneGroup(<<"make", "sure", "to">>),
         OneGroup(<<"remember", "to">>)>> >>,
     <<"never_rule",
       <<OneGroup(<<"never">>), OneGroup(<<"don't", "ever">>), OneGroup(<<"avoid">>)>> >>,
     <<"correction",
       <<AfterComma("actually"), AfterComma("no"), AfterComma("wrong"),
         AfterComma("incorrect")>> >>,
     <<"mistake_fix",
       << <<Opt(<<Lit("that's"), Sp1>>),
            Alt(<< <<Lit("wrong")>>, <<Lit("incorrect")>>, <<Lit("mistake")>> >>),
            Gap, Lit("should"), Sp1, Lit("be"), Sp1, Cap, End>>,
          <<Lit("fix"), Gap, Alt(<< <<Lit("by")>>, <<Lit("to")>> >>), Sp1, Cap, End>>,
          <<Lit("change"), Gap, Alt(<< <<Lit("to")>>, <<Lit("into")>> >>), Sp1, Cap, End>> >> >> >>

\* CorrectionDetector.context_keywords
detector_keywords ==
  << <<"urgent", <<"quick", "urgent", "asap", "immediately", "fast", "rush", "hurry">> >>,
     <<"quality", <<"careful", "thorough", "comprehensive", "detailed", "precise">> >>,
     <<"coding", <<"function", "class", "variable", "import", "test", "code", "script">> >>,
     <<"review", <<"pr", "review", "check", "verify", "approve", "merge">> >>,
     <<"workflow", <<"command", "process", "step", "procedure", "protocol">> >>,
     <<"testing", <<"test", "testing", "spec", "coverage", "validate">> >>,
     <<"documentation", <<"docs", "readme", "documentation", "comment">> >>,
     <<"git", <<"commit", "branch", "merge", "push", "pull", "git">> >> >>

_detect_context(message) == DetectFrom(message, detector_keywords)

\* str.strip()
RECURSIVE RStrip(_)
RStrip(s) ==
  IF Len(s) > 0 /\ IsSpace(SubSeq(s, Len(s), Len(s)))
  THEN RStrip(SubSeq(s, 1, Len(s) - 1)) ELSE s

Strip(s) == RStrip(Slice(s, SkipSpace(s, 1), Len(s)))

\* the boost of each category in hundredths; a category without one gets 0
confidence_boosts(correction_type) ==
  CASE correction_type \in {"dont_do_instead", "use_instead"} -> 20
    [] correction_type \in {"always_rule", "never_rule"} -> 10
    [] correction_type = "correction" -> 15
    [] OTHER -> 0

\* the sum before min(1.0, .): base 0.7, the category's boost, 0.1 for an
\* imperative word, 0.05 for a comma or a full stop
NaturalSum(correction_type, message) ==
  70 + confidence_boosts(correction_type)
     + (IF \E w \in {"always", "never", "must", "should"} : Contains(message, w)
        THEN 10 ELSE 0)
     + (IF Contains(message, ",") \/ Contains(message, ".") THEN 5 ELSE 0)

\* _calculate_confidence without its min(1.0, .)
_calculate_confidence_unclamped(correction_type, message) ==
  NaturalSum(correction_type, message)

_calculate_confidence(correction_type, message) ==
  Min(100, NaturalSum(correction_type, message))

\* the candidates of one template, in the order of the matches
CandidatesOf(message, message_lower, correction_type, template) ==
  LET matches == ReFindall(message_lower, template, 1)
  IN [n \in DOMAIN matches |->
        [type |-> correction_type, pattern |-> matches[n],
         original_text |-> message,
         confidence |-> _calculate_confidence(correction_type, message_lower),
         context |-> _detect_context(message_lower)]]

RECURSIVE Concat(_)
Concat(seqs) == IF seqs = <<>> THEN <<>> ELSE Head(seqs) \o Concat(Tail(seqs))

\* the list detect_corrections builds before it removes duplicates
AllCandidates(message) ==
  LET message_lower == Strip(Lower(message))
  IN Concat([c \in DOMAIN patterns |->
               Concat([n \in DOMAIN patterns[c][2] |->
                         CandidatesOf(message, message_lower, patterns[c][1],
                                      patterns[c][2][n])])])

\* the loop of _deduplicate_corrections over the sorted list: the first
\* candidate of each key is kept; the key is str(correction["pattern"])
RECURSIVE KeepFirst(_, _, _)
KeepFirst(corrections, unique_corrections, seen_patterns) ==
  IF corrections = <<>> THEN unique_corrections
  ELSE LET correction == Head(corrections)
           pattern_key == correction.pattern
       IN IF pattern_key \notin seen_patterns
          THEN KeepFirst(Tail(corrections), Append(unique_corrections, correction),
                         seen_patterns \cup {pattern_key})
          ELSE KeepFirst(Tail(corrections), unique_corrections, seen_patterns)

_deduplicate_corrections(corrections) ==
  KeepFirst(SortByConfidence(corrections), <<>>, {})

detect_corrections(message) == _deduplicate_corrections(AllCandidates(message))

\* ----------------------------------------------------------------- inputs
Adjustments == {-130, 0, 10}

UnknownId == "correction_0_9"

UnknownPath == "CLAUDE_md_backup_0.md"

InitDocs ==
  {[exists |-> FALSE, content |-> ""],
   [exists |-> TRUE, content |-> "# Rules\nBe kind.\n"],
   [exists |-> TRUE, content |-> "# Rules\n## Code Standards\nUse tabs.\n## Other\nBe kind.\n"],
   [exists |-> TRUE, content |-> "intro\n## Testing"],
   [exists |-> TRUE, content |-> "## Testing\nt\n## Development Guidelines\nd\n"]}

\* the id lists of a feedback call: one of the candidate ids, or two of them
\* in the order of the candidates (possibly the same one twice)
IdLists(candidates, pairs) ==
  {<<candidates[i]>> : i \in DOMAIN candidates}
    \cup (IF pairs
          THEN {<<candidates[p[1]], candidates[p[2]]>> :
                  p \in {q \in (DOMAIN candidates) \X (DOMAIN candidates) : q[1] <= q[2]}}
          ELSE {})

\* the ids a caller may name: those of the store in its order, then unknown ones
Candidates(es, unknown) == [k \in DOMAIN es |-> es[k].id] \o unknown

\* The callers of a behaviour: how many calls they make and the inputs they
\* draw.  StoreCallers exercise the pattern store, DocCallers the rules document.
StoreCallers ==
  [budget |-> MaxOps,
   learnTexts |-> LearnTexts,
   learnMLTexts |-> {"Don't use pip, always use uv", "looks fine"},
   feedbackTexts |-> FeedbackTexts, pairs |-> TRUE, unknownIds |-> <<UnknownId>>,
   adjustments |-> Adjustments]

DocCallers ==
  [budget |-> MaxDocOps,
   learnTexts |-> {"always run tests", "Don't use pip, always use uv"},
   learnMLTexts |-> {"looks fine"},
   feedbackTexts |-> {"perfect, thanks", "Actually, that's wrong, use X instead"},
   pairs |-> FALSE, unknownIds |-> <<>>,
   adjustments |-> {0}]

\* ------------------------------------------------- calls as state changes
\* ConfidenceTracker.update_pattern_confidence on an existing file
TrackerUpdate(m, pattern_ids, user_feedback, t) ==
  LET feedback_type == FeedbackTypeOf[user_feedback]
      r == FeedbackLoop(m.entities, <<>>, pattern_ids, feedback_type, user_feedback, t)
  IN [mem |-> [m EXCEPT !.entities = r.entities], updated |-> r.updated,
      feedback_type |-> feedback_type]

NoResult ==
  [op |-> "", status |-> "", backup_path |-> "", new_rules |-> <<>>, preview |-> "",
   listing |-> <<>>, updated |-> <<>>]

NoCall ==
  [op |-> "", ids |-> <<>>, text |-> "", feedback_type |-> "", adjustment |-> 0,
   created |-> 0, path |-> "", dry_run |-> FALSE, tags |-> <<>>, category |-> ""]

NamedCount(id) == IF id \in DOMAIN named THEN named[id] ELSE 0

\* one more call named each of these ids
Name(ids) ==
  [id \in DOMAIN named \cup ids |-> IF id \in ids THEN NamedCount(id) + 1 ELSE named[id]]

\* the report that update_pattern_confidence returns; the pictographs at the
\* start of its lines are left out and the arrow between the two confidences
\* is written "->"
_format_confidence_update_report(updated_patterns, feedback_type) ==
  IF updated_patterns = <<>>
  THEN "No patterns to update for " \o feedback_type \o " feedback"
  ELSE Join(<<"Confidence updated based on " \o feedback_type \o " feedback:">>
              \o [i \in DOMAIN updated_patterns |->
                    "  Pattern " \o updated_patterns[i].id \o ": "
                      \o Fmt2(updated_patterns[i].old_confidence) \o " -> "
                      \o Fmt2(updated_patterns[i].new_confidence)],
            "\n")

\* what the caller of a feedback call gets back: the tracker's report or
\* message, nothing (None) from memory_learn.update_pattern_confidence
Returned(res, call) ==
  IF res.op = "feedback"
  THEN IF res.status = "ok"
       THEN _format_confidence_update_report(res.updated, call.feedback_type)
       ELSE res.status
  ELSE ""

\* ---------------------------------------------------- stores to start from
\* Stores the program reaches in second 0: one learn call, then feedback
\* calls, computed with the operators of the calls themselves.
FbEvent(ids, text) == [kind |-> "tracker", ids |-> ids, text |-> text, adjustment |-> 0]
MlEvent(id, adj) == [kind |-> "memory_learn", ids |-> <<id>>, text |-> "", adjustment |-> adj]

RECURSIVE Replay(_, _)
Replay(m, events) ==
  IF events = <<>> THEN m
  ELSE LET ev == Head(events)
       IN Replay(IF ev.kind = "tracker"
                 THEN TrackerUpdate(m, ev.ids, ev.text, 0).mem
                 ELSE update_pattern_confidence(m, ev.ids[1], ev.adjustment, 0).mem,
                 Tail(events))

SeedA == "correction_0_0"
SeedB == "correction_0_1"
Good(ids) == FbEvent(ids, "perfect, thanks")
Bad(ids) == FbEvent(ids, "that is wrong")

\* five good answers: confidence 1.0, applied 5, success 5
SeedFive ==
  [text |-> "always run tests",
   events |-> <<Good(<<SeedA>>), Good(<<SeedA>>), Good(<<SeedA>>), Good(<<SeedA>>),
                Good(<<SeedA>>)>>]

\* confidence 0.95, applied 6, success 5
SeedSix ==
  [text |-> "always run tests",
   events |-> <<Good(<<SeedA>>), Good(<<SeedA>>), Good(<<SeedA>>), Good(<<SeedA>>),
                Bad(<<SeedA>>), Good(<<SeedA>>)>>]

\* confidence 0.95, applied 4, success 3
SeedFour ==
  [text |-> "always run tests",
   events |-> <<Good(<<SeedA>>), Good(<<SeedA>>), Bad(<<SeedA>>), Good(<<SeedA>>)>>]

\* confidence 0.95, applied 6, success 3
SeedHalf ==
  [text |-> "always run tests",
   events |-> <<Good(<<SeedA>>), Good(<<SeedA>>), Bad(<<SeedA>>), Good(<<SeedA>>),
                MlEvent(SeedA, 0), MlEvent(SeedA, 0)>>]

\* two patterns: the first at 0.95 (6, 5), the second at 1.0 (5, 5)
SeedTwo ==
  [text |-> "Don't use pip, always use uv",
   events |-> <<Good(<<SeedA, SeedB>>), Good(<<SeedA, SeedB>>), Good(<<SeedA, SeedB>>),
                Good(<<SeedA, SeedB>>), Bad(<<SeedA>>), Good(<<SeedA, SeedB>>)>>]

\* three corrections: confidence 0.05, applied 3, success 0
SeedLow ==
  [text |-> "always run tests",
   events |-> <<FbEvent(<<SeedA>>, "Actually, that's wrong, use X instead"),
                FbEvent(<<SeedA>>, "Actually, that's wrong, use X instead"),
                FbEvent(<<SeedA>>, "Actually, that's wrong, use X instead")>>]

Seeds == {SeedFive, SeedSix, SeedFour, SeedHalf, SeedTwo, SeedLow}

DocSeeds == {SeedFive, SeedFour, SeedTwo}

SeedStore(seed) == Replay(enhanced_learn(MissingFile, seed.text, 0), seed.events)

\* how many of the seed's calls named the id
SeedNamed(seed) ==
  LET ids == IdsOf(SeedStore(seed).entities)
  IN [id \in ids |->
        Cardinality({k \in DOMAIN seed.events :
                       \E j \in DOMAIN seed.events[k].ids : seed.events[k].ids[j] = id})]

\* auto_corrections.json before AutoCorrectionPipeline has stored anything
NoAutoFile == [exists |-> FALSE, corrections |-> <<>>]

Start ==
  /\ now = 1
  /\ backups = <<>>
  /\ result = NoResult
  /\ last = NoCall
  /\ ops = 0
  /\ promoteLog = <<>>
  /\ inflight = <<>>
  /\ auto = NoAutoFile

Init ==
  /\ Start
  /\ env = StoreCallers
  /\ \/ mem = MissingFile /\ named = <<>>
     \/ \E seed \in Seeds : mem = SeedStore(seed) /\ named = SeedNamed(seed)
  /\ doc = [exists |-> TRUE, content |-> "# Rules\n## Code Standards\nUse tabs.\n## Other\nBe kind.\n"]

InitDoc ==
  /\ Start
  /\ env = DocCallers
  /\ \E seed \in DocSeeds : mem = SeedStore(seed) /\ named = SeedNamed(seed)
  /\ doc \in InitDocs

\* ---------------------------------------------------------------- actions
\* `learn` through scripts/enhanced_learn.py
Learn(text) ==
  /\ ops < env.budget
  /\ mem' = enhanced_learn(mem, text, now)
  /\ result' = [NoResult EXCEPT !.op = "learn", !.status = "ok"]
  /\ last' = [NoCall EXCEPT !.op = "learn", !.text = text,
                            !.created = Max(1, Len(ELFound[text]))]
  /\ ops' = ops + 1
  /\ UNCHANGED <<now, doc, backups, named, promoteLog, env, inflight, auto>>

\* `learn` through scripts/memory_learn.py
LearnML(text) ==
  LET r == memory_learn(mem, text, now)
  IN /\ ops < env.budget
     /\ mem' = r.mem
     /\ result' = [NoResult EXCEPT !.op = "learn_ml",
                                   !.status = IF r.ok THEN "ok" ELSE "KeyError"]
     /\ last' = [NoCall EXCEPT !.op = "learn_ml", !.text = text,
                   !.created = IF r.ok THEN Max(1, Len(MLFound[text]))
                               ELSE 0]
     /\ ops' = ops + 1
     /\ UNCHANGED <<now, doc, backups, named, promoteLog, env, inflight, auto>>

\* ConfidenceTracker.update_pattern_confidence(pattern_ids, user_feedback)
Feedback(pattern_ids, user_feedback) ==
  /\ ops < env.budget
  /\ IF ~mem.exists
     THEN /\ result' = [NoResult EXCEPT !.op = "feedback", !.status = "No memory file found"]
          /\ UNCHANGED <<mem, named>>
     ELSE LET r == TrackerUpdate(mem, pattern_ids, user_feedback, now)
          IN /\ mem' = r.mem
             /\ result' = [NoResult EXCEPT !.op = "feedback", !.status = "ok",
                                           !.updated = r.updated]
             /\ named' = Name({pattern_ids[k] : k \in DOMAIN pattern_ids}
                                \cap IdsOf(mem.entities))
  /\ last' = [NoCall EXCEPT !.op = "feedback", !.ids = pattern_ids, !.text = user_feedback,
                            !.feedback_type = FeedbackTypeOf[user_feedback],
                            !.adjustment = adjustments(FeedbackTypeOf[user_feedback])]
  /\ ops' = ops + 1
  /\ UNCHANGED <<now, doc, backups, promoteLog, env, inflight, auto>>

\* memory_learn.update_pattern_confidence(entity_id, adjustment)
UpdateConfidence(entity_id, adjustment) ==
  LET r == update_pattern_confidence(mem, entity_id, adjustment, now)
  IN /\ ops < env.budget
     /\ mem' = r.mem
     /\ result' = [NoResult EXCEPT !.op = "update_ml",
                                   !.status = IF r.ok THEN "ok" ELSE "KeyError"]
     /\ named' = Name({entity_id} \cap IdsOf(mem.entities))
     /\ last' = [NoCall EXCEPT !.op = "update_ml", !.ids = <<entity_id>>,
                               !.adjustment = adjustment]
     /\ ops' = ops + 1
     /\ UNCHANGED <<now, doc, backups, promoteLog, env, inflight, auto>>

\* the `check` command: the promotable listing
Check ==
  /\ ops < env.budget
  /\ result' = [NoResult EXCEPT !.op = "check", !.status = "ok",
                                !.listing = get_promotable_patterns(mem)]
  /\ last' = [NoCall EXCEPT !.op = "check"]
  /\ ops' = ops + 1
  /\ UNCHANGED <<now, mem, doc, backups, named, promoteLog, env, inflight, auto>>

\* update_claude_md(dry_run): `preview` and `promote`
UpdateClaudeMd(dry_run) ==
  LET promotable_patterns == get_promotable_patterns(mem)
      new_rules == [i \in DOMAIN promotable_patterns |-> RuleLine(promotable_patterns[i])]
      section_text == learned_section(new_rules, now)
  IN /\ ops < env.budget
     /\ last' = [NoCall EXCEPT !.op = "update_claude_md", !.dry_run = dry_run]
     /\ ops' = ops + 1
     /\ UNCHANGED <<now, named, env, inflight, auto>>
     /\ IF EarlyReturn(promotable_patterns, doc) # ""
        THEN /\ result' = [NoResult EXCEPT !.op = "update_claude_md",
                             !.status = EarlyReturn(promotable_patterns, doc)]
             /\ UNCHANGED <<mem, doc, backups, promoteLog>>
        ELSE /\ backups' = create_backup(backups, doc, now)
             /\ IF dry_run
                THEN /\ result' = [NoResult EXCEPT !.op = "update_claude_md",
                                     !.status = "dry_run", !.backup_path = BackupPath(now),
                                     !.new_rules = new_rules, !.preview = section_text]
                     /\ UNCHANGED <<mem, doc, promoteLog>>
                ELSE /\ doc' = [exists |-> TRUE,
                                content |-> new_content(doc.content, section_text)]
                     /\ mem' = _mark_patterns_promoted(mem, promotable_patterns, now)
                     /\ result' = [NoResult EXCEPT !.op = "update_claude_md",
                                     !.status = "success", !.backup_path = BackupPath(now),
                                     !.new_rules = new_rules]
                     /\ promoteLog' = Append(promoteLog,
                                             [path |-> BackupPath(now), pre |-> doc.content])

\* rollback_to_backup(backup_path)
Rollback(backup_path) ==
  /\ ops < env.budget
  /\ last' = [NoCall EXCEPT !.op = "rollback", !.path = backup_path]
  /\ ops' = ops + 1
  /\ LET r == rollback_to_backup(doc, backups, backup_path)
     IN /\ result' = [NoResult EXCEPT !.op = "rollback", !.status = r.status]
        /\ doc' = r.doc
        /\ backups' = r.backups
  /\ UNCHANGED <<now, mem, named, promoteLog, env, inflight, auto>>

\* the clock reaches the next second
Tick ==
  /\ now < MaxTime
  /\ now' = now + 1
  /\ UNCHANGED <<mem, doc, backups, result, last, ops, named, promoteLog, env, inflight, auto>>

Next ==
  \/ \E text \in env.learnTexts : Learn(text)
  \/ \E text \in env.learnMLTexts : LearnML(text)
  \/ \E ids \in IdLists(Candidates(mem.entities, env.unknownIds), env.pairs),
        text \in env.feedbackTexts :
        Feedback(ids, text)
  \/ \E ids \in IdLists(Candidates(mem.entities, env.unknownIds), FALSE),
        adj \in env.adjustments :
        UpdateConfidence(ids[1], adj)
  \/ Check
  \/ \E dry_run \in BOOLEAN : UpdateClaudeMd(dry_run)
  \/ \E path \in DOMAIN backups \cup {UnknownPath} : Rollback(path)
  \/ Tick

Spec == Init /\ [][Next]_vars

SpecDoc == InitDoc /\ [][Next]_vars

\* ------------------------------------------------------------- properties
\* ------------------------------------------- invocations that overlap
\* Every mutating call loads the whole store file, changes its copy and
\* writes the whole file back; nothing locks the file in between.  An
\* invocation in flight holds what it loaded; seen is the number of saves
\* that had happened when it loaded, saved its own place among the saves.
RaceCallers ==
  [budget |-> MaxInvocations,
   learnTexts |-> {"always run tests", "looks fine"},
   learnMLTexts |-> {},
   feedbackTexts |-> {"perfect, thanks", "that is wrong"},
   pairs |-> FALSE, unknownIds |-> <<>>,
   adjustments |-> {}]

Saves == Cardinality({p \in DOMAIN inflight : inflight[p].saved > 0})

Invocation(op, text, ids, listing) ==
  [op |-> op, text |-> text, ids |-> ids, listing |-> listing,
   loaded |-> mem, t |-> now, seen |-> Saves, saved |-> 0]

\* what the invocation writes when it works on the store content m
OutcomeOn(call, m) ==
  CASE call.op = "learn" -> enhanced_learn(m, call.text, call.t)
    [] call.op = "feedback" -> TrackerUpdate(m, call.ids, call.text, call.t).mem
    [] call.op = "mark" -> _mark_patterns_promoted(m, call.listing, call.t)

\* an invocation that reads the file again right before it saves
LoadedAtSave(call, m) == m

\* the content an invocation works on when the file holds m at its save: the
\* copy it loaded at its start
Loaded(call, m) == call.loaded

\* enhanced_learn.py: the file is read
BeginLearn(text) ==
  /\ Len(inflight) < env.budget
  /\ inflight' = Append(inflight, Invocation("learn", text, <<>>, <<>>))
  /\ UNCHANGED <<now, mem, doc, backups, result, last, ops, named, promoteLog, env, auto>>

\* ConfidenceTracker.update_pattern_confidence: the file is read
BeginFeedback(pattern_ids, user_feedback) ==
  /\ Len(inflight) < env.budget
  /\ mem.exists
  /\ inflight' = Append(inflight, Invocation("feedback", user_feedback, pattern_ids, <<>>))
  /\ UNCHANGED <<now, mem, doc, backups, result, last, ops, named, promoteLog, env, auto>>

\* update_claude_md(dry_run=False) up to the point where
\* _mark_patterns_promoted has read the file
BeginMark ==
  LET promotable_patterns == get_promotable_patterns(mem)
      new_rules == [i \in DOMAIN promotable_patterns |-> RuleLine(promotable_patterns[i])]
  IN /\ Len(inflight) < env.budget
     /\ promotable_patterns # <<>>
     /\ doc.exists
     /\ backups' = create_backup(backups, doc, now)
     /\ doc' = [exists |-> TRUE,
                content |-> new_content(doc.content, learned_section(new_rules, now))]
     /\ promoteLog' = Append(promoteLog, [path |-> BackupPath(now), pre |-> doc.content])
     /\ inflight' = Append(inflight, Invocation("mark", "", <<>>, promotable_patterns))
     /\ UNCHANGED <<now, mem, result, last, ops, named, env, auto>>

\* the invocation writes the whole file
Finish(p) ==
  /\ inflight[p].saved = 0
  /\ mem' = OutcomeOn(inflight[p], Loaded(inflight[p], mem))
  /\ inflight' = [inflight EXCEPT ![p].saved = Saves + 1]
  /\ result' = [NoResult EXCEPT !.op = inflight[p].op, !.status = "ok"]
  /\ UNCHANGED <<now, doc, backups, last, ops, named, promoteLog, env, auto>>

InitRace ==
  /\ Start
  /\ env = RaceCallers
  /\ \E seed \in DocSeeds : mem = SeedStore(seed) /\ named = SeedNamed(seed)
  /\ doc = [exists |-> TRUE, content |-> "# Rules\nBe kind.\n"]

NextRace ==
  \/ \E text \in env.learnTexts : BeginLearn(text)
  \/ \E ids \in IdLists(Candidates(mem.entities, env.unknownIds), env.pairs),
        text \in env.feedbackTexts :
        BeginFeedback(ids, text)
  \/ BeginMark
  \/ \E p \in DOMAIN inflight : Finish(p)
  \/ Tick

SpecRace == InitRace /\ [][NextRace]_vars

\* ------------------------------------- a promote that overlaps feedback
\* update_claude_md(dry_run=False) reads the store twice: for the listing at
\* its start, and again in _mark_patterns_promoted after the document has
\* been written.  Feedback calls of other invocations may save in between.

\* update_claude_md(dry_run=False) from the listing to the written document
BeginPromote ==
  LET promotable_patterns == get_promotable_patterns(mem)
      new_rules == [i \in DOMAIN promotable_patterns |-> RuleLine(promotable_patterns[i])]
  IN /\ Len(inflight) < env.budget
     /\ EarlyReturn(promotable_patterns, doc) = ""
     /\ backups' = create_backup(backups, doc, now)
     /\ doc' = [exists |-> TRUE,
                content |-> new_content(doc.content, learned_section(new_rules, now))]
     /\ promoteLog' = Append(promoteLog, [path |-> BackupPath(now), pre |-> doc.content])
     /\ inflight' = Append(inflight, Invocation("promote", "", <<>>, promotable_patterns))
     /\ UNCHANGED <<now, mem, result, last, ops, named, env, auto>>

\* _mark_patterns_promoted reads the file
LoadMark(p) ==
  /\ inflight[p].op = "promote"
  /\ inflight' = [inflight EXCEPT ![p].op = "mark", ![p].loaded = mem, ![p].t = now,
                                  ![p].seen = Saves]
  /\ UNCHANGED <<now, mem, doc, backups, result, last, ops, named, promoteLog, env, auto>>

PromoteCallers == [RaceCallers EXCEPT !.budget = MaxPromoteInvocations]

InitPromote ==
  /\ Start
  /\ env = PromoteCallers
  /\ \E seed \in DocSeeds : mem = SeedStore(seed) /\ named = SeedNamed(seed)
  /\ doc = [exists |-> TRUE, content |-> "# Rules\nBe kind.\n"]

NextPromote ==
  \/ \E ids \in IdLists(Candidates(mem.entities, env.unknownIds), env.pairs),
        text \in env.feedbackTexts :
        BeginFeedback(ids, text)
  \/ BeginPromote
  \/ \E p \in DOMAIN inflight : LoadMark(p)
  \/ \E p \in DOMAIN inflight : inflight[p].op # "promote" /\ Finish(p)
  \/ Tick

SpecPromote == InitPromote /\ [][NextPromote]_vars

\* ------------------------------------------------------------------ query
\* the query of query_patterns.py without the sort: the first five matches in
\* the order of the store
query_patterns_unsorted(m, query_keywords, correction_type) ==
  IF ~m.exists
  THEN [status |-> "No memory file found", shown |-> <<>>, found |-> 0]
  ELSE
    LET all == SelectSeq(m.entities, LAMBDA e : e.type = "user_correction")
        keywords == [i \in DOMAIN query_keywords |-> Lower(query_keywords[i])]
        byContext ==
          IF query_keywords = <<>> THEN all
          ELSE SelectSeq(all,
                 LAMBDA c : \E i \in DOMAIN keywords : \E j \in DOMAIN c.context :
                               keywords[i] = Lower(c.context[j]))
        corrections ==
          IF correction_type = "" THEN byContext
          ELSE SelectSeq(byContext, LAMBDA c : c.correction_type = correction_type)
    IN IF all = <<>>
       THEN [status |-> "No corrections found in memory.", shown |-> <<>>, found |-> 0]
       ELSE IF corrections = <<>>
       THEN [status |-> "No matching patterns found", shown |-> <<>>, found |-> 0]
       ELSE [status |-> "ok",
             shown |-> [i \in 1..Min(5, Len(corrections)) |-> corrections[i]],
             found |-> Len(corrections)]

\* query_patterns.py query_patterns(context_keywords, correction_type): the
\* message it returns when it lists nothing, and the patterns its report
\* lists (the first five in the order of the sort); found is the number in
\* the report's heading
query_patterns(m, query_keywords, correction_type) ==
  IF ~m.exists
  THEN [status |-> "No memory file found", shown |-> <<>>, found |-> 0]
  ELSE
    LET all == SelectSeq(m.entities, LAMBDA e : e.type = "user_correction")
        keywords == [i \in DOMAIN query_keywords |-> Lower(query_keywords[i])]
        byContext ==
          IF query_keywords = <<>> THEN all
          ELSE SelectSeq(all,
                 LAMBDA c : \E i \in DOMAIN keywords : \E j \in DOMAIN c.context :
                               keywords[i] = Lower(c.context[j]))
        corrections ==
          IF correction_type = "" THEN byContext
          ELSE SelectSeq(byContext, LAMBDA c : c.correction_type = correction_type)
        sorted == SortByConfidence(
                    [i \in DOMAIN corrections |->
                       [confidence |-> GetOr(corrections[i].confidence, 0),
                        entity |-> corrections[i]]])
    IN IF all = <<>>
       THEN [status |-> "No corrections found in memory.", shown |-> <<>>, found |-> 0]
       ELSE IF corrections = <<>>
       THEN [status |-> "No matching patterns found", shown |-> <<>>, found |-> 0]
       ELSE [status |-> "ok",
             shown |-> [i \in 1..Min(5, Len(sorted)) |-> sorted[i].entity],
             found |-> Len(corrections)]

\* memory_learn.query_relevant_patterns(current_context), current_context a
\* list of context tags
query_relevant_patterns(m, current_context, t) ==
  SelectSeq(load_memory(m, t).entities,
    LAMBDA entity :
      /\ entity.type = "user_correction"
      /\ \E j \in DOMAIN entity.context : \E i \in DOMAIN current_context :
            entity.context[j] = current_context[i]
      /\ entity.confidence > 60)

QueryTags == {<<>>, <<"coding">>, <<"General">>, <<"review", "coding">>}

QueryTypes == {"", "always_rule", "dont_do_instead"}

QueryCallers ==
  [budget |-> MaxQueryOps,
   learnTexts |-> {"always run tests", "Don't use pip, always use uv"},
   learnMLTexts |-> {},
   feedbackTexts |-> {"perfect, thanks", "that is wrong"},
   pairs |-> FALSE, unknownIds |-> <<>>,
   adjustments |-> {},
   queryTags |-> QueryTags, queryTypes |-> QueryTypes]

\* query_patterns.py, as the `patterns` command calls it
QueryPatterns(query_keywords, correction_type) ==
  LET r == query_patterns(mem, query_keywords, correction_type)
  IN /\ ops < env.budget
     /\ result' = [NoResult EXCEPT !.op = "query_patterns", !.status = r.status,
                                   !.listing = r.shown]
     /\ last' = [NoCall EXCEPT !.op = "query_patterns", !.tags = query_keywords,
                               !.category = correction_type]
     /\ ops' = ops + 1
     /\ UNCHANGED <<now, mem, doc, backups, named, promoteLog, env, inflight, auto>>

\* memory_learn.query_relevant_patterns
QueryRelevant(current_context) ==
  /\ ops < env.budget
  /\ result' = [NoResult EXCEPT !.op = "query_relevant_patterns", !.status = "ok",
                  !.listing = query_relevant_patterns(mem, current_context, now)]
  /\ last' = [NoCall EXCEPT !.op = "query_relevant_patterns", !.tags = current_context]
  /\ ops' = ops + 1
  /\ UNCHANGED <<now, mem, doc, backups, named, promoteLog, env, inflight, auto>>

\* ConfidenceTracker.get_high_confidence_patterns(min_confidence,
\* min_applications); the success rate success/max(1, applied) is compared
\* with 0.7 in integers
get_high_confidence_patterns(m, min_confidence, min_applications) ==
  IF ~m.exists THEN <<>>
  ELSE LET chosen ==
             SelectSeq(m.entities,
               LAMBDA p :
                 /\ p.type = "user_correction"
                 /\ GetOr(p.confidence, 0) >= min_confidence
                 /\ GetOr(p.applied_count, 0) >= min_applications
                 /\ 10 * GetOr(p.success_count, 0) >= 7 * Max(1, GetOr(p.applied_count, 0)))
       IN SortByConfidence(
            [i \in DOMAIN chosen |->
               [id |-> chosen[i].id, pattern |-> chosen[i],
                confidence |-> GetOr(chosen[i].confidence, 0),
                applications |-> GetOr(chosen[i].applied_count, 0),
                success_rate |-> <<GetOr(chosen[i].success_count, 0),
                                   Max(1, GetOr(chosen[i].applied_count, 0))>>]])

\* the `promotable` command of confidence_tracker.py: the listing with the
\* default arguments 0.8 and 3
Promotable ==
  /\ ops < env.budget
  /\ result' = [NoResult EXCEPT !.op = "promotable", !.status = "ok",
                                !.listing = get_high_confidence_patterns(mem, 80, 3)]
  /\ last' = [NoCall EXCEPT !.op = "promotable"]
  /\ ops' = ops + 1
  /\ UNCHANGED <<now, mem, doc, backups, named, promoteLog, env, inflight, auto>>

\* a store of six corrections: the same text learned in three different
\* seconds before the behaviour starts; no feedback has named them yet
SixCorrections ==
  enhanced_learn(
    enhanced_learn(
      enhanced_learn(MissingFile, "Don't use pip, always use uv", -2),
      "Don't use pip, always use uv", -1),
    "Don't use pip, always use uv", 0)

InitQuery ==
  /\ Start
  /\ env = QueryCallers
  /\ \/ mem = MissingFile /\ named = <<>>
     \/ \E seed \in Seeds : mem = SeedStore(seed) /\ named = SeedNamed(seed)
     \/ mem = SixCorrections /\ named = [id \in IdsOf(SixCorrections.entities) |-> 0]
  /\ doc = [exists |-> FALSE, content |-> ""]

NextQuery ==
  \/ \E text \in env.learnTexts : Learn(text)
  \/ \E ids \in IdLists(Candidates(mem.entities, env.unknownIds), env.pairs),
        text \in env.feedbackTexts :
        Feedback(ids, text)
  \/ \E tags \in env.queryTags, type \in env.queryTypes : QueryPatterns(tags, type)
  \/ \E tags \in env.queryTags : QueryRelevant(tags)
  \/ Check
  \/ Promotable
  \/ Tick

SpecQuery == InitQuery /\ [][NextQuery]_vars

\* ------------------------------------------------------------ extraction
\* The extraction on its own: the two learn scripts and the pipeline of
\* auto_correction_detector.py, on the texts of ExtractTexts.

\* what the detector finds in each text (a function of the text alone,
\* tabulated once): before and after _deduplicate_corrections
Gathered == [text \in ExtractTexts |-> AllCandidates(text)]
Detected == [text \in ExtractTexts |-> _deduplicate_corrections(Gathered[text])]

\* AutoCorrectionPipeline._store_corrections: the entries appended to the file
RECURSIVE _store_corrections(_, _, _)
_store_corrections(data, corrections, t) ==
  IF corrections = <<>> THEN data
  ELSE _store_corrections(
         [exists |-> TRUE,
          corrections |->
            Append(data.corrections,
                   [id |-> "auto_" \o Stamp(t) \o "_" \o ToString(Len(data.corrections)),
                    correction |-> Head(corrections), stored_at |-> t,
                    processed |-> FALSE])],
         Tail(corrections), t)

ExtractCallers ==
  [budget |-> MaxExtractOps,
   learnTexts |-> ExtractTexts,
   learnMLTexts |-> ExtractTexts,
   feedbackTexts |-> {}, pairs |-> FALSE, unknownIds |-> <<>>,
   adjustments |-> {}]

\* AutoCorrectionPipeline.process_user_message(message)
ProcessUserMessage(message) ==
  LET corrections == Detected[message]
  IN /\ ops < env.budget
     /\ auto' = IF corrections # <<>> THEN _store_corrections(auto, corrections, now)
                ELSE auto
     /\ result' = [NoResult EXCEPT !.op = "process_user_message",
                     !.status = IF corrections # <<>> THEN "stored" ELSE "",
                     !.listing = corrections]
     /\ last' = [NoCall EXCEPT !.op = "process_user_message", !.text = message,
                               !.created = Len(corrections)]
     /\ ops' = ops + 1
     /\ UNCHANGED <<now, mem, doc, backups, named, promoteLog, env, inflight>>

InitExtract ==
  /\ Start
  /\ env = ExtractCallers
  /\ \/ mem = MissingFile /\ named = <<>>
     \/ mem = SeedStore(SeedFive) /\ named = SeedNamed(SeedFive)
  /\ doc = [exists |-> FALSE, content |-> ""]

NextExtract ==
  \/ \E text \in env.learnTexts : Learn(text)
  \/ \E text \in env.learnMLTexts : LearnML(text)
  \/ \E message \in env.learnTexts : ProcessUserMessage(message)
  \/ Tick

SpecExtract == InitExtract /\ [][NextExtract]_vars

\* --------------------------------------------- classification of responses
\* detect_feedback_type on its own: the responses are all the lines of up to
\* MaxWords words from Words
Words ==
  {"good", "thanks", "wrong", "no", "incorrect", "actually", "should", "use",
   "instead", "Don't", "do", "ok"}

Responses ==
  {Join(ws, " ") : ws \in UNION {[1..n -> Words] : n \in 0..MaxWords}}

ClassifyCallers(text) ==
  [budget |-> 1,
   learnTexts |-> {}, learnMLTexts |-> {},
   feedbackTexts |-> {text},
   pairs |-> FALSE, unknownIds |-> <<>>,
   adjustments |-> {}]

InitClassify ==
  /\ Start
  /\ mem = MissingFile
  /\ named = <<>>
  /\ doc = [exists |-> FALSE, content |-> ""]
  /\ \E text \in Responses : env = ClassifyCallers(text)

\* ConfidenceTracker.detect_feedback_type(user_response)
Classify(user_response) ==
  /\ ops < env.budget
  /\ last' = [NoCall EXCEPT !.op = "detect_feedback_type", !.text = user_response]
  /\ result' = [NoResult EXCEPT !.op = "detect_feedback_type",
                                !.status = detect_feedback_type(user_response)]
  /\ ops' = ops + 1
  /\ UNCHANGED <<now, mem, doc, backups, named, promoteLog, env, inflight, auto>>

NextClassify == \E text \in env.feedbackTexts : Classify(text)

SpecClassify == InitClassify /\ [][NextClassify]_vars

Entities == {mem.entities[k] : k \in DOMAIN mem.entities}

Occurrences(ids, id) == Cardinality({j \in DOMAIN ids : ids[j] = id})

\* C1: the stored confidence of every pattern is within [0.0, 1.0] after
\* every update by either update_pattern_confidence, also after consecutive
\* corrections.
C1_ConfidenceInBounds ==
  \A e \in Entities : e.confidence # Absent => (0 <= e.confidence /\ e.confidence <= 100)

\* a fourth consecutive correction has just been applied and left the confidence at 0.0
C1_Witness ==
  /\ last.op = "feedback"
  /\ last.feedback_type = "correction"
  /\ \E e \in Entities :
        /\ e.confidence = 0
        /\ Len(e.feedback_history) >= 4
        /\ \A j \in (Len(e.feedback_history) - 3)..Len(e.feedback_history) :
              e.feedback_history[j].feedback_type = "correction"

\* C4: the promotable listing holds exactly the stored correction patterns
\* with confidence >= 0.9, applied_count >= 5 and success rate >= 0.8, each
\* once, in descending order of confidence.
C4_PromotableListing ==
  result.op = "check" =>
    LET listing == result.listing
        wanted == {e \in Entities :
                     /\ e.type = "user_correction"
                     /\ e.confidence # Absent /\ e.confidence >= 90
                     /\ e.applied_count # Absent /\ e.applied_count >= 5
                     /\ e.success_count # Absent
                     /\ 5 * e.success_count >= 4 * e.applied_count}
    IN /\ {listing[i].id : i \in DOMAIN listing} = {e.id : e \in wanted}
       /\ Len(listing) = Cardinality(wanted)
       /\ \A i \in DOMAIN listing :
             \E e \in wanted : e.id = listing[i].id /\ e.confidence = listing[i].confidence
       /\ \A i \in DOMAIN listing, j \in DOMAIN listing :
             i < j => listing[i].confidence >= listing[j].confidence

\* the listing holds the pattern with confidence 0.95, applied 6, success 5
C4_Witness ==
  /\ result.op = "check"
  /\ \E i \in DOMAIN result.listing :
        /\ result.listing[i].confidence = 95
        /\ result.listing[i].pattern.applied_count = 6
        /\ result.listing[i].pattern.success_count = 5

\* the deltas of section 4.3, in hundredths
DeltaOf(classification) ==
  IF classification = "positive" THEN 10
  ELSE IF classification = "negative" THEN 0 - 15
  ELSE IF classification = "correction" THEN 0 - 25
  ELSE 0

Bounded(x) == IF x < 0 THEN 0 ELSE IF x > 100 THEN 100 ELSE x

\* C5: one feedback application to a stored pattern adds the delta of the
\* classification to its confidence, clamped to [0,1], adds 1 to applied_count,
\* adds 1 to success_count exactly for positive and neutral, and appends one
\* feedback_history entry, the earlier entries unchanged.
C5_OneApplication ==
  [][(ops' = ops + 1 /\ last'.op = "feedback" /\ mem.exists) =>
       \A k \in DOMAIN mem.entities :
          LET before == mem.entities[k]
              after == mem'.entities[k]
              kind == last'.feedback_type
          IN (Occurrences(last'.ids, before.id) = 1 /\ before.confidence # Absent) =>
               /\ after.id = before.id
               /\ after.confidence = Bounded(before.confidence + DeltaOf(kind))
               /\ after.applied_count = GetOr(before.applied_count, 0) + 1
               /\ GetOr(after.success_count, 0) =
                    GetOr(before.success_count, 0)
                      + (IF kind \in {"positive", "neutral"} THEN 1 ELSE 0)
               /\ Len(after.feedback_history) = Len(before.feedback_history) + 1
               /\ SubSeq(after.feedback_history, 1, Len(before.feedback_history))
                    = before.feedback_history
               /\ after.feedback_history[Len(after.feedback_history)].feedback_type = kind]_vars

\* a correction has just been applied once to a stored pattern
C5_Witness ==
  /\ last.op = "feedback"
  /\ last.feedback_type = "correction"
  /\ \E e \in Entities :
        /\ Occurrences(last.ids, e.id) = 1
        /\ e.type = "user_correction"
        /\ e.applied_count >= 1
        /\ e.feedback_history # <<>>
        /\ e.feedback_history[Len(e.feedback_history)].user_text = last.text

\* C6: each pattern's applied_count equals the number of feedback calls that
\* named its id since the id was created.
C6_AppliedEqualsCalls ==
  \A e \in Entities : GetOr(e.applied_count, 0) = NamedCount(e.id)

\* C7: every pattern has 0 <= success_count <= applied_count.
C7_SuccessWithinApplied ==
  \A e \in Entities :
     /\ 0 <= GetOr(e.success_count, 0)
     /\ GetOr(e.success_count, 0) <= GetOr(e.applied_count, 0)

\* memory_learn's update has just counted a success on a pattern whose every
\* application succeeded
C7_Witness ==
  /\ last.op = "update_ml"
  /\ last.adjustment > 0
  /\ result.status = "ok"
  /\ \E e \in Entities :
        /\ e.id = last.ids[1]
        /\ e.applied_count >= 6
        /\ e.success_count = e.applied_count

\* C8: every stored record is still in the store, with its id, category,
\* captured fragments and original text, after every later call.
C8_RecordsKept ==
  [][\A e \in Entities :
       \E k \in DOMAIN mem'.entities :
          /\ mem'.entities[k].id = e.id
          /\ mem'.entities[k].type = e.type
          /\ mem'.entities[k].correction_type = e.correction_type
          /\ mem'.entities[k].pattern = e.pattern
          /\ mem'.entities[k].original_text = e.original_text]_vars

\* C9: every record created by a learn call gets an id that no stored record
\* and no other record of the call has: the store grows by one record per
\* creation.
C9_FreshIds ==
  [][(ops' = ops + 1 /\ last'.op \in {"learn", "learn_ml"}) =>
       Cardinality(IdsOf(mem'.entities)) = Cardinality(IdsOf(mem.entities)) + last'.created]_vars

\* C2: a non-dry-run promote only inserts text: the document before it is
\* the document after it with one stretch taken out.
C2_PromoteOnlyAdds ==
  [][(ops' = ops + 1 /\ last'.op = "update_claude_md" /\ ~last'.dry_run
        /\ result'.status = "success") =>
       \E k \in 0..Len(doc.content) :
          /\ Len(doc'.content) >= Len(doc.content)
          /\ Prefix(doc'.content, k) = Prefix(doc.content, k)
          /\ Suffix(doc'.content, Len(doc'.content) - (Len(doc.content) - k))
               = Suffix(doc.content, k)]_vars

\* C3: a rollback to the backup path that a promote returned leaves the
\* document as it was right before that promote.
C3_RollbackRestores ==
  (last.op = "rollback" /\ result.status = "success") =>
     \A i \in DOMAIN promoteLog :
        promoteLog[i].path = last.path => doc.content = promoteLog[i].pre

\* C10: a dry run writes nothing: document, store and backup directory are
\* as before, and a dry_run result carries the preview and the backup path.
C10_DryRunWritesNothing ==
  [][(ops' = ops + 1 /\ last'.op = "update_claude_md" /\ last'.dry_run) =>
       /\ doc' = doc
       /\ mem' = mem
       /\ backups' = backups
       /\ result'.status = "dry_run" =>
            (result'.preview # "" /\ result'.backup_path = BackupPath(now))]_vars

\* C11: a promote that writes (not a dry run, a non-empty promotable listing,
\* an existing rules document) returns success with a backup whose content is
\* the document as it was before the write, and every pattern of the listing
\* is marked promoted with the time of the call and its listed confidence.
C11_PromoteBacksUpAndMarks ==
  [][(ops' = ops + 1 /\ last'.op = "update_claude_md" /\ ~last'.dry_run
        /\ get_promotable_patterns(mem) # <<>> /\ doc.exists) =>
       LET listing == get_promotable_patterns(mem)
       IN /\ result'.status = "success"
          /\ result'.backup_path \in DOMAIN backups'
          /\ backups'[result'.backup_path] = doc.content
          /\ \A i \in DOMAIN listing :
                \E k \in DOMAIN mem'.entities :
                   /\ mem'.entities[k].id = listing[i].id
                   /\ mem'.entities[k].promoted_to_claude_md
                   /\ mem'.entities[k].promotion_date = now
                   /\ mem'.entities[k].promotion_confidence = listing[i].confidence]_vars

\* a promote has just written two rules: both patterns are marked, one of
\* them with a listed confidence below 1.0, and the backup is in place
C11_Witness ==
  /\ last.op = "update_claude_md"
  /\ ~last.dry_run
  /\ result.status = "success"
  /\ Len(result.new_rules) = 2
  /\ result.backup_path \in DOMAIN backups
  /\ Cardinality({e \in Entities : e.promoted_to_claude_md}) = 2
  /\ \E e \in Entities : e.promoted_to_claude_md /\ e.promotion_confidence = 95

\* C12: a backup file, once created, keeps its content through every later
\* operation.
C12_BackupsImmutable ==
  [][\A p \in DOMAIN backups : p \in DOMAIN backups' /\ backups'[p] = backups[p]]_vars

\* number of occurrences of the literal p in s at or after position i
RECURSIVE Count(_, _, _)
Count(s, p, i) ==
  LET at == Find(s, p, i)
  IN IF at = 0 THEN 0 ELSE 1 + Count(s, p, at + Len(p))

\* the generated sub-sections in a document, counted by their heading
Generated(content) == Count(content, "### Learned Rules (Auto-Generated from Experience)", 1)

\* C13: a promote that writes adds its generated sub-section and keeps the
\* generated sub-sections of the earlier promotes: the document holds one more
\* of them than before.
C13_SectionsAccumulate ==
  [][(ops' = ops + 1 /\ last'.op = "update_claude_md" /\ ~last'.dry_run
        /\ result'.status = "success") =>
       Generated(doc'.content) = Generated(doc.content) + 1]_vars

\* invocation p saved while q was between its load and its save, and q is the
\* last one that saved
Overwritten(p, q) ==
  /\ p # q
  /\ inflight[q].saved = Saves
  /\ inflight[p].saved > inflight[q].seen
  /\ inflight[p].saved < inflight[q].saved

\* C14: when an invocation saves after another one saved in between its load
\* and its save, the store is what the later one makes of the content it
\* loaded: the whole file of the earlier writer is replaced (last write wins).
C14_LastWriteWins ==
  \A p \in DOMAIN inflight : \A q \in DOMAIN inflight :
     Overwritten(p, q) => mem = OutcomeOn(inflight[q], inflight[q].loaded)

\* learn with learn: both invocations have saved, and a record that the first
\* writer created is not in the store
C14_Witness ==
  \E p \in DOMAIN inflight : \E q \in DOMAIN inflight :
     /\ Overwritten(p, q)
     /\ inflight[p].op = "learn"
     /\ inflight[q].op = "learn"
     /\ \E id \in IdsOf(OutcomeOn(inflight[p], inflight[p].loaded).entities) :
           /\ id \notin IdsOf(inflight[p].loaded.entities)
           /\ id \notin IdsOf(mem.entities)

\* learn with feedback: the feedback that the first writer applied is not in
\* the store that the learn call wrote
LostFeedback ==
  \E p \in DOMAIN inflight : \E q \in DOMAIN inflight :
     /\ Overwritten(p, q)
     /\ inflight[p].op = "feedback"
     /\ inflight[q].op = "learn"
     /\ \E e \in Entities :
           /\ e.id = inflight[p].ids[1]
           /\ \E k \in DOMAIN inflight[p].loaded.entities :
                 /\ inflight[p].loaded.entities[k].id = e.id
                 /\ inflight[p].loaded.entities[k].applied_count = e.applied_count

\* feedback with promote's marking: the marks that the promote wrote are not
\* in the store that the feedback call wrote
LostMark ==
  \E p \in DOMAIN inflight : \E q \in DOMAIN inflight :
     /\ Overwritten(p, q)
     /\ inflight[p].op = "mark"
     /\ inflight[q].op = "feedback"
     /\ \E e \in Entities :
           /\ e.id = inflight[p].listing[1].id
           /\ ~e.promoted_to_claude_md

\* C15: feedback on an id that is not in the store raises no error, leaves
\* every record that the call does not name as it was, and tells the caller
\* that this id was not found, also when other ids of the call are updated.
C15_UnknownIdReported ==
  [][(ops' = ops + 1 /\ last'.op \in {"feedback", "update_ml"}) =>
       \A j \in DOMAIN last'.ids :
          last'.ids[j] \notin IdsOf(mem.entities) =>
             /\ result'.status # "KeyError"
             /\ mem'.exists = mem.exists
             /\ IdsOf(mem'.entities) = IdsOf(mem.entities)
             /\ \A k \in DOMAIN mem.entities :
                   Occurrences(last'.ids, mem.entities[k].id) = 0
                      => mem'.entities[k] = mem.entities[k]
             /\ Contains(Returned(result', last'), last'.ids[j])]_vars

\* C16: a learn call completes whatever the store file holds: missing, or
\* written by the other learn implementation.
C16_LearnNeverRaises ==
  result.op \in {"learn", "learn_ml"} => result.status = "ok"

\* C17 as stated: with no rules document, a promote or a preview returns
\* status error and writes nothing: no backup, no document, no promoted mark,
\* whatever the store holds.
C17_MissingDocumentIsError ==
  [][(ops' = ops + 1 /\ last'.op = "update_claude_md" /\ ~doc.exists) =>
       /\ result'.status = "error"
       /\ backups' = backups
       /\ doc' = doc
       /\ mem' = mem]_vars

\* C17 amended: with no rules document, a promote or a preview writes nothing
\* (no backup, no document, no promoted mark) whatever the store holds; it
\* returns status error when the promotable listing is not empty and status
\* no_patterns when it is empty.
C17_MissingDocumentReported ==
  [][(ops' = ops + 1 /\ last'.op = "update_claude_md" /\ ~doc.exists) =>
       /\ result'.status =
            (IF get_promotable_patterns(mem) # <<>> THEN "error" ELSE "no_patterns")
       /\ backups' = backups
       /\ doc' = doc
       /\ mem' = mem]_vars

\* a promote of a promotable pattern has just been refused for the missing
\* document
C17_Witness ==
  /\ last.op = "update_claude_md"
  /\ ~last.dry_run
  /\ ~doc.exists
  /\ get_promotable_patterns(mem) # <<>>
  /\ result.status = "error"
  /\ backups = <<>>
  /\ \A e \in Entities : ~e.promoted_to_claude_md

\* C18: a rollback changes only the rules document: the store, with every
\* promoted flag, promotion time and promotion confidence, and all backup
\* files are as before.
C18_RollbackFrame ==
  [][(ops' = ops + 1 /\ last'.op = "rollback") =>
       /\ mem' = mem
       /\ backups' = backups
       /\ \A p \in DOMAIN backups : backups'[p] = backups[p]]_vars

\* a rollback has just taken the generated sub-section out of the document
\* again, and the pattern is still marked promoted
C18_Witness ==
  /\ last.op = "rollback"
  /\ result.status = "success"
  /\ last.path \in DOMAIN backups
  /\ doc.content = backups[last.path]
  /\ Generated(doc.content) = 0
  /\ \E e \in Entities :
        e.promoted_to_claude_md /\ e.promotion_date # Absent /\ e.promotion_confidence # Absent

\* the three quantities the classification is decided by
CorrectionMatches(text) ==
  \/ ContainsThen(Lower(text), "don't", "do")
  \/ ContainsThen(Lower(text), "use", "instead")
  \/ ContainsThen(Lower(text), "actually", "should")
  \/ ContainsThen(Lower(text), "prefer", "not")
  \/ ContainsThen(Lower(text), "wrong", "should")

PositiveHits(text) == Hits(Lower(text), positive_keywords)

NegativeHits(text) == Hits(Lower(text), negative_keywords)

\* C19: the classification is correction whenever a correction phrasing
\* matches; otherwise negative exactly when there are strictly more negative
\* than positive keyword hits; otherwise positive exactly when there is a
\* positive hit; otherwise neutral.
C19_Classification ==
  result.op = "detect_feedback_type" =>
     /\ CorrectionMatches(last.text) => result.status = "correction"
     /\ ~CorrectionMatches(last.text) =>
          /\ (result.status = "negative") <=> (NegativeHits(last.text) > PositiveHits(last.text))
          /\ NegativeHits(last.text) <= PositiveHits(last.text) =>
               /\ (result.status = "positive") <=> (PositiveHits(last.text) > 0)
               /\ PositiveHits(last.text) = 0 => result.status = "neutral"

\* a response with one positive and one negative hit and no correction
\* phrasing has been classified: the tie goes to positive
C19_Witness ==
  /\ result.op = "detect_feedback_type"
  /\ ~CorrectionMatches(last.text)
  /\ PositiveHits(last.text) = 1
  /\ NegativeHits(last.text) = 1
  /\ result.status = "positive"

\* C20: every pattern that a query returns, from query_patterns.py or from
\* memory_learn.query_relevant_patterns, has a confidence above 0.6.
C20_QueryAboveThreshold ==
  result.op \in {"query_patterns", "query_relevant_patterns"} =>
     \A i \in DOMAIN result.listing : result.listing[i].confidence > 60

\* the stored patterns with a tag in common with the tags (every pattern when
\* there are no tags) and of the category (every category when it is "");
\* fold says whether the tags are compared without regard to case
TagsMeet(e, tags, fold) ==
  \E i \in DOMAIN tags : \E j \in DOMAIN e.context :
     IF fold THEN Lower(tags[i]) = Lower(e.context[j]) ELSE tags[i] = e.context[j]

Matching(tags, category, fold) ==
  SelectSeq(mem.entities,
    LAMBDA e : /\ e.type = "user_correction"
               /\ tags = <<>> \/ TagsMeet(e, tags, fold)
               /\ category = "" \/ e.correction_type = category)

Listed(e) == \E i \in DOMAIN result.listing : result.listing[i].id = e.id

\* C21 (as claimed): a query omits no stored pattern that has a tag in
\* common with the query's tags (any pattern when no tags are supplied), is
\* of the requested category and has a confidence above 0.6.
C21_QueryOmitsNothing ==
  result.op \in {"query_patterns", "query_relevant_patterns"} =>
     LET m == Matching(last.tags, last.category, FALSE)
     IN \A k \in DOMAIN m : m[k].confidence > 60 => Listed(m[k])

\* C21 (amended): query_patterns lists the matches by tags and category in
\* descending confidence, at most five of them: every match when there are
\* at most five, else five that no omitted match exceeds in confidence.
\* query_relevant_patterns returns exactly the corrections that share a tag
\* with the query and have a confidence above 0.6, none when no tags are given.
C21_QueryListsTopFive ==
  /\ result.op = "query_patterns" =>
       LET m == Matching(last.tags, last.category, TRUE)
           l == result.listing
       IN /\ Len(l) = Min(5, Len(m))
          /\ \A i \in DOMAIN l : \E k \in DOMAIN m : m[k] = l[i]
          /\ \A i, j \in DOMAIN l : i < j => l[i].confidence >= l[j].confidence
          /\ \A i, j \in DOMAIN l : i # j => l[i].id # l[j].id
          /\ \A k \in DOMAIN m :
               ~Listed(m[k]) => \A i \in DOMAIN l : m[k].confidence <= l[i].confidence
  /\ result.op = "query_relevant_patterns" =>
       /\ \A k \in DOMAIN mem.entities :
            LET e == mem.entities[k]
            IN Listed(e) <=> /\ e.type = "user_correction"
                             /\ TagsMeet(e, last.tags, FALSE)
                             /\ e.confidence > 60
       /\ last.tags = <<>> => result.listing = <<>>

\* a query of six matches of unequal confidence has listed five of them
C21_Witness ==
  /\ result.op = "query_patterns"
  /\ Len(Matching(last.tags, last.category, TRUE)) = 6
  /\ Len(result.listing) = 5
  /\ \E k \in DOMAIN mem.entities :
       mem.entities[k].confidence > 80 /\ Listed(mem.entities[k])
  /\ \E k \in DOMAIN mem.entities :
       mem.entities[k].confidence > 60 /\ ~Listed(mem.entities[k])

\* two stored or detected candidates of the same category and captured fragments
SameCandidate(c, d) == c.type = d.type /\ c.pattern = d.pattern

SameRecord(c, d) == c.correction_type = d.correction_type /\ c.pattern = d.pattern

\* the entries that a call of the pipeline appended to its file
Appended == SubSeq(auto'.corrections, Len(auto.corrections) + 1, Len(auto'.corrections))

\* C22: one extraction call stores exactly one record for the candidates of
\* identical category and captured fragments that it found, and the record
\* has the highest confidence among them.
C22_OneRecordPerCandidate ==
  [][/\ (ops' = ops + 1 /\ last'.op = "learn") =>
          \A i, j \in DOMAIN mem'.entities :
             (/\ i # j
              /\ mem'.entities[i].id \notin IdsOf(mem.entities)
              /\ mem'.entities[j].id \notin IdsOf(mem.entities)
              /\ mem'.entities[i].type = "user_correction"
              /\ mem'.entities[j].type = "user_correction")
               => ~SameRecord(mem'.entities[i], mem'.entities[j])
     /\ (ops' = ops + 1 /\ last'.op = "process_user_message") =>
          /\ \A i, j \in DOMAIN Appended :
               i # j => ~SameCandidate(Appended[i].correction, Appended[j].correction)
          /\ \A n \in DOMAIN Gathered[last'.text] :
               \E i \in DOMAIN Appended :
                  /\ SameCandidate(Appended[i].correction, Gathered[last'.text][n])
                  /\ Appended[i].correction.confidence >= Gathered[last'.text][n].confidence
    ]_vars

\* C23: detect_corrections merges two candidates only when their category
\* and their captured fragments are both equal: every (category, fragments)
\* that a template matched is still among the candidates it returns.
C23_CategoriesRetained ==
  result.op = "process_user_message" =>
     \A n \in DOMAIN Gathered[last.text] :
        \E i \in DOMAIN result.listing :
           SameCandidate(result.listing[i], Gathered[last.text][n])

\* C24: a learn call on an empty or whitespace-only text finds no
\* candidates, creates no record and does not write the store.
C24_EmptyTextStoresNothing ==
  [][(/\ ops' = ops + 1
      /\ last'.op \in {"learn", "learn_ml", "process_user_message"}
      /\ Strip(last'.text) = "")
       => /\ mem' = mem
          /\ auto' = auto
          /\ ELFound[last'.text] = <<>>
          /\ MLFound[last'.text] = <<>>
          /\ Detected[last'.text] = <<>>]_vars

\* the records of the store es that are general observations of the text
\* with these tags, made in this second
ObservationsOf(es, text, tags, t) ==
  {k \in DOMAIN es : /\ es[k].type = "general_observation"
                     /\ es[k].original_text = text
                     /\ es[k].context = tags
                     /\ es[k].created = t}

\* the call stored exactly one general observation of its text and touched
\* no other record
OneObservation(text, tags) ==
  /\ Cardinality(ObservationsOf(mem'.entities, text, tags, now)) = 1
  /\ \A k \in DOMAIN mem'.entities \ ObservationsOf(mem'.entities, text, tags, now) :
        k \in DOMAIN mem.entities /\ mem'.entities[k] = mem.entities[k]
  /\ Len(mem'.entities) \in {Len(mem.entities), Len(mem.entities) + 1}

ListedIds(listing) == {listing[i].id : i \in DOMAIN listing}

\* C26: the `promotable` listing of the Confidence Tracker names the same
\* patterns as get_promotable_patterns of the Promotion Engine, and every
\* pattern it names has confidence >= 0.9, applied_count >= 5 and a success
\* rate >= 0.8.
C26_SamePromotableListing ==
  result.op = "promotable" =>
     /\ ListedIds(result.listing) = ListedIds(get_promotable_patterns(mem))
     /\ \A i \in DOMAIN result.listing : MeetsCriteria(result.listing[i].pattern)

\* the sum of the base and the boosts for a returned candidate of the last message
SumFor(c) == NaturalSum(c.type, Strip(Lower(last.text)))

\* C27 (as claimed): for every candidate the sum base 0.7 + category boost +
\* 0.1 for an imperative word + 0.05 for punctuation is at most 1.0, and the
\* initial confidence is that sum.
C27_SumWithinOne ==
  result.op = "process_user_message" =>
     \A i \in DOMAIN result.listing :
        /\ SumFor(result.listing[i]) <= 100
        /\ result.listing[i].confidence = SumFor(result.listing[i])

\* C27 (amended): the initial confidence is the sum cut at 1.0: it lies
\* between 0.7 and 1.0 and equals the sum when the sum is at most 1.0; the
\* sum exceeds 1.0 only for dont_do_instead and use_instead with both
\* boosts, where it is 1.05 and the confidence is 1.0.
C27_ConfidenceIsCutSum ==
  result.op = "process_user_message" =>
     \A i \in DOMAIN result.listing :
        LET c == result.listing[i]
        IN /\ c.confidence >= 70 /\ c.confidence <= 100
           /\ SumFor(c) <= 100 => c.confidence = SumFor(c)
           /\ SumFor(c) > 100 =>
                /\ c.type \in {"dont_do_instead", "use_instead"}
                /\ SumFor(c) = 105
                /\ c.confidence = 100

\* a returned candidate whose sum is 1.05 and whose confidence is 1.0, beside
\* one whose confidence is its sum
C27_Witness ==
  /\ result.op = "process_user_message"
  /\ \E i \in DOMAIN result.listing :
        SumFor(result.listing[i]) = 105 /\ result.listing[i].confidence = 100
  /\ \E i \in DOMAIN result.listing :
        SumFor(result.listing[i]) = 95 /\ result.listing[i].confidence = 95

\* C28: a promote that follows a successful promote with no feedback in
\* between writes no rule for a pattern that is already marked promoted and
\* leaves the pattern's promotion_date and promotion_confidence as they were.
C28_PromotedOnce ==
  [][(/\ result.op = "update_claude_md" /\ result.status = "success"
      /\ ops' = ops + 1
      /\ last'.op = "update_claude_md" /\ ~last'.dry_run)
       => /\ \A k \in DOMAIN mem.entities :
               mem.entities[k].promoted_to_claude_md =>
                  /\ mem'.entities[k].promotion_date = mem.entities[k].promotion_date
                  /\ mem'.entities[k].promotion_confidence
                       = mem.entities[k].promotion_confidence
          /\ LET listing == get_promotable_patterns(mem)
             IN \A i \in DOMAIN listing :
                   listing[i].pattern.promoted_to_claude_md =>
                      \A n \in DOMAIN result'.new_rules :
                         result'.new_rules[n] # RuleLine(listing[i])]_vars

\* stats.total_corrections of the store file is the number of its
\* user_correction records (a missing file has neither)
StatsAgree(m) ==
  m.exists =>
     m.stats = Cardinality({k \in DOMAIN m.entities : m.entities[k].type = "user_correction"})

\* C29: a call of enhanced_learn of scripts/enhanced_learn.py on a store
\* whose stats.total_corrections is its number of user_correction records
\* (or on no store) leaves a store of which that is true again.
C29_StatsCountRecords ==
  [][(ops' = ops + 1 /\ last'.op = "learn" /\ StatsAgree(mem)) => StatsAgree(mem')]_vars

\* the patterns whose promoted flag this step sets
NewlyPromoted ==
  {k \in DOMAIN mem'.entities :
      /\ mem'.entities[k].promoted_to_claude_md
      /\ k \in DOMAIN mem.entities => ~mem.entities[k].promoted_to_claude_md}

\* the invocations that save in this step
Saving == {p \in DOMAIN inflight : inflight[p].saved = 0 /\ inflight'[p].saved > 0}

\* the entry of the listing of the marking p for the record e, if any
ListedBy(p, e) ==
  {i \in DOMAIN inflight[p].listing : inflight[p].listing[i].id = e.id}

\* C30 (as claimed): a promoted flag is set only by the marking of a promote
\* whose listing included the pattern, and in the store that the marking
\* writes the pattern satisfies the promotion predicate, whatever feedback
\* calls of other invocations ran between the listing and the marking.
C30_MarkedMeetsPredicate ==
  [][\A k \in NewlyPromoted :
        /\ \E p \in Saving : inflight[p].op = "mark" /\ ListedBy(p, mem'.entities[k]) # {}
        /\ MeetsCriteria(mem'.entities[k])]_vars

\* the flag is in the copy of the store that the invocation p loaded
LoadedPromoted(p, e) ==
  LET es == inflight[p].loaded.entities
      k == IdxOf(es, e.id)
  IN /\ inflight[p].loaded.exists
     /\ k # 0
     /\ es[k].promoted_to_claude_md
     /\ es[k].promotion_confidence = e.promotion_confidence

\* C30 (amended): a promoted flag enters the store only by the marking of a
\* promote whose listing included the pattern: the pattern satisfied the
\* promotion predicate in the store that the listing read, and the marking
\* records the confidence of the listing as promotion_confidence.  Any other
\* save that sets the flag writes back a copy that was loaded with the
\* flag already set by such a marking.
C30_MarkedWasListed ==
  [][\A k \in NewlyPromoted :
        \E p \in Saving :
           \/ /\ inflight[p].op = "mark"
              /\ \E i \in ListedBy(p, mem'.entities[k]) :
                    /\ MeetsCriteria(inflight[p].listing[i].pattern)
                    /\ mem'.entities[k].promotion_confidence = inflight[p].listing[i].confidence
           \/ LoadedPromoted(p, mem'.entities[k])]_vars

\* a marking has been written on a record that feedback changed after the
\* listing: the promoted pattern does not satisfy the promotion predicate
C30_Witness ==
  \E k \in DOMAIN mem.entities :
     /\ mem.entities[k].promoted_to_claude_md
     /\ ~MeetsCriteria(mem.entities[k])
     /\ mem.entities[k].promotion_confidence # mem.entities[k].confidence
     /\ \E p \in DOMAIN inflight : inflight[p].op = "mark" /\ inflight[p].saved > 0

====
